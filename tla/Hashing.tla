------------------------------ MODULE Hashing ------------------------------
(***************************************************************************)
(* BLAKE3 digests of tachyon-crypto: the CPU for small data and as the way *)
(* out, and GpuVerifier::compute_blake3 with the three buffers it keeps    *)
(* from call to call.  A digest is the set of its tree's nodes, each with  *)
(* the first and last value below it.  Data is measured in chunks.         *)
(***************************************************************************)
EXTENDS Naturals, Sequences, SequencesExt, FiniteSetsExt

CONSTANTS
    DataSizes,   \* chunks of the data to hash
    GpuMin,      \* GPU_MIN_SIZE, in chunks
    MaxHashes    \* bound on the calls

VARIABLES
    hashPc,      \* where the call stands
    hashes,      \* calls so far: the number of the present one
    chunks,      \* num_chunks of the present call
    keeps,       \* whether a caller keeps one GpuVerifier for its calls
    cached,      \* sizes of the cached buffers, and cached_buffer_capacity
    uploaded,    \* the call whose data the input buffer holds
    output,      \* chaining values in the output buffer
    staging,     \* chaining values in the staging buffer
    digest       \* the tree that the last call returned

hashVars == <<hashPc, hashes, chunks, keeps, cached, uploaded, output, staging, digest>>

NoBuffers == [input |-> 0, output |-> 0, staging |-> 0, capacity |-> 0]

-----------------------------------------------------------------------------
(* Trees.                                                                   *)

Leaf(cv) == [first |-> cv, last |-> cv, nodes |-> {<<cv, cv, "chunk">>}]

Merge(left, right, kind) ==
    [first |-> left.first, last |-> right.last,
     nodes |-> left.nodes \cup right.nodes \cup {<<left.first, right.last, kind>>}]

\* The definition of BLAKE3: to the left goes the largest power of two of chunks.
Left(n) == Max({2^k : k \in {j \in 0..n : 2^j < n}})

Subtree(cvs) ==
    LET tree[from \in DOMAIN cvs, size \in DOMAIN cvs] ==
            IF size = 1 THEN Leaf(cvs[from])
            ELSE Merge(tree[from, Left(size)], tree[from + Left(size), size - Left(size)], "parent")
    IN  tree

Blake3(cvs) ==
    LET n == Len(cvs)
        tree == Subtree(cvs)
    IN  IF n = 1 THEN Leaf(cvs[1])
        ELSE Merge(tree[1, Left(n)], tree[1 + Left(n), n - Left(n)], "root")

\* The first loop of blake3_tree_reduce: chunk i closes as many subtrees as
\* i has trailing zeros.
TrailingZeros(i) == Max({k \in 0..i : i % (2^k) = 0})

PushChunk(stack, cv, i) ==
    LET kept == Len(stack) - TrailingZeros(i)
        Close(left, right) == Merge(left, right, "parent")
    IN  Append(SubSeq(stack, 1, kept), FoldRight(Close, SubSeq(stack, kept + 1, Len(stack)), Leaf(cv)))

ChunkStack(cvs) ==
    LET Push(stack, i) == PushChunk(stack, cvs[i], i)
    IN  FoldLeft(Push, <<>>, [i \in DOMAIN cvs |-> i])

\* The second loop: what is left on the stack, from right to left.  Of a power
\* of two of chunks one subtree is left, closed as a parent: it is compressed
\* once more, next to zeros.
TreeReduce(cvs) ==
    LET stack == ChunkStack(cvs)
        Close(left, right) == Merge(left, right, "parent")
        right == FoldRight(Close, SubSeq(stack, 2, Len(stack) - 1), Last(stack))
    IN  IF Len(stack) > 1 THEN Merge(stack[1], right, "root")
        ELSE [stack[1] EXCEPT !.nodes = @ \cup {<<stack[1].first, stack[1].last, "wrapped">>}]

\* The chaining value of a chunk of a call, and what a workgroup makes of it: the
\* shader counts bytes where BLAKE3 has the number of the chunk.
Chunk(call, i) == [call |-> call, chunk |-> i, by |-> "blake3"]
ShaderValue(call, i) == [call |-> call, chunk |-> i, by |-> "shader"]
Data(call, n) == [i \in 1..n |-> Chunk(call, i)]

TypeOK ==
    /\ hashPc \in {"idle", "adapter", "new", "input", "output", "staging", "submit", "map", "cpu", "done", "failed"}
    /\ hashes \in 0..MaxHashes /\ chunks \in DataSizes \cup {0} /\ keeps \in BOOLEAN
    /\ \A b \in DOMAIN cached : cached[b] \in DataSizes \cup {0}
    /\ Len(output) = cached.output /\ Len(staging) = cached.staging

Init ==
    /\ hashPc = "idle" /\ hashes = 0 /\ chunks = 0 /\ keeps \in BOOLEAN
    /\ cached = NoBuffers /\ uploaded = 0 /\ output = <<>> /\ staging = <<>>
    /\ digest = {}

buffers == <<cached, uploaded, output, staging>>

-----------------------------------------------------------------------------
\* auto_select_and_hash(), and compute_blake3() of a verifier that is kept.
Hash(n) ==
    /\ hashPc \in {"idle", "done", "failed"} /\ hashes < MaxHashes
    /\ hashes' = hashes + 1 /\ chunks' = n /\ digest' = {}
    /\ hashPc' = CASE n < GpuMin -> "cpu" [] keeps -> "input" [] OTHER -> "adapter"
    /\ UNCHANGED <<keeps, buffers>>

Adapter ==
    /\ hashPc = "adapter" /\ hashPc' \in {"new", "cpu"}
    /\ UNCHANGED <<hashes, chunks, keeps, buffers, digest>>

\* A new verifier has no buffers yet.
NewVerifier ==
    /\ hashPc = "new" /\ hashPc' \in {"input", "cpu"}
    /\ cached' = NoBuffers /\ uploaded' = 0 /\ output' = <<>> /\ staging' = <<>>
    /\ UNCHANGED <<hashes, chunks, keeps, digest>>

Fits(size) == size >= chunks

StageInput ==
    /\ hashPc = "input" /\ hashPc' = "output"
    /\ uploaded' = hashes
    /\ cached' = IF cached.input > 0 /\ Fits(cached.capacity) THEN cached
                 ELSE [cached EXCEPT !.input = chunks, !.capacity = chunks]
    /\ UNCHANGED <<hashes, chunks, keeps, output, staging, digest>>

Zeros == [i \in 1..chunks |-> ShaderValue(0, i)]

TakeOutput ==
    /\ hashPc = "output" /\ hashPc' = "staging"
    /\ IF Fits(cached.output) THEN UNCHANGED <<cached, output>>
       ELSE cached' = [cached EXCEPT !.output = chunks] /\ output' = Zeros
    /\ UNCHANGED <<hashes, chunks, keeps, uploaded, staging, digest>>

TakeStaging ==
    /\ hashPc = "staging" /\ hashPc' = "submit"
    /\ IF Fits(cached.staging) THEN UNCHANGED <<cached, staging>>
       ELSE cached' = [cached EXCEPT !.staging = chunks] /\ staging' = Zeros
    /\ UNCHANGED <<hashes, chunks, keeps, uploaded, output, digest>>

\* Workgroups from the total_chunks-th on write nothing.  The shader takes the
\* first word of the data for the place of this number, so it is any number.  The
\* values of all chunks are copied to the staging buffer; a buffer may be longer.
Overwrite(buffer, values) == [i \in DOMAIN buffer |-> IF i \in DOMAIN values THEN values[i] ELSE buffer[i]]

Submit ==
    /\ hashPc = "submit" /\ hashPc' = "map"
    /\ \E total \in 0..chunks : output' = Overwrite(output, [i \in 1..total |-> ShaderValue(uploaded, i)])
    /\ staging' = Overwrite(staging, SubSeq(output', 1, Min({chunks, Len(output)})))
    /\ UNCHANGED <<hashes, chunks, keeps, cached, uploaded, digest>>

ReadBack == SubSeq(staging, 1, chunks)

\* The buffer is mapped and read, or the mapping fails: a kept verifier says
\* so, auto_select_and_hash turns to the CPU.
MapAndReduce ==
    /\ hashPc = "map"
    /\ \/ Len(staging) >= chunks /\ hashPc' = "done" /\ digest' = TreeReduce(ReadBack).nodes
       \/ hashPc' = (IF keeps THEN "failed" ELSE "cpu") /\ UNCHANGED digest
    /\ UNCHANGED <<hashes, chunks, keeps, buffers>>

\* blake3::hash, or the reader of compute_hash_streaming block by block.
Cpu ==
    /\ hashPc = "cpu" /\ hashPc' = "done"
    /\ digest' = Blake3(Data(hashes, chunks)).nodes
    /\ UNCHANGED <<hashes, chunks, keeps, buffers>>

HashStep ==
    Adapter \/ NewVerifier \/ StageInput \/ TakeOutput \/ TakeStaging \/ Submit \/ MapAndReduce \/ Cpu

Next == HashStep \/ \E n \in DataSizes : Hash(n)

-----------------------------------------------------------------------------
\* Whether the digest is that of a reduction on the CPU of values of the GPU.
Reduced == hashPc = "done" /\ \E node \in digest : node[1].by = "shader"

\* blake3_tree_reduce makes the tree of BLAKE3 of the values it is given, except of
\* a power of two of them; it is given one for each chunk of the call, though the
\* buffers of a kept verifier are longer.  A digest of the CPU is the one of BLAKE3.
DigestIsTree ==
    hashPc = "done" =>
        IF Reduced
        THEN chunks \notin {2^k : k \in 0..chunks} => digest = Blake3(ReadBack).nodes
        ELSE digest = Blake3(Data(hashes, chunks)).nodes

\* The reduction is the one of BLAKE3 ("做正确的树形归约", blake3_tree_reduce), of
\* whatever values.
ReductionIsBlake3 == Reduced => digest = Blake3(ReadBack).nodes
=============================================================================
