----------------------------- MODULE FileNames -----------------------------
(***************************************************************************)
(* File names of tachyon-core: what Content-Disposition or the URL name is *)
(* cleaned until it names a file in the download directory.  Characters    *)
(* are classes: a letter, a dot, a separator, a space, and another one     *)
(* that Windows does not allow.                                            *)
(***************************************************************************)
EXTENDS Naturals, Sequences, SequencesExt

CONSTANTS MaxName   \* bound on the length of a name

VARIABLES
    header,     \* the parameters of Content-Disposition, each a kind and a name
    urlName,    \* the last segment of the path of the URL, decoded
    fileName    \* extract_filename, <<>> before it is called

nameVars == <<header, urlName, fileName>>

Letter == "a"
Chars == {Letter, ".", "/", " ", ":"}
Inputs == UNION {[1..n -> Chars] : n \in 0..MaxName}
Unknown == <<"unknown">>

-----------------------------------------------------------------------------
(* sanitize_filename().                                                     *)

\* First pass: separators become spaces, and `..' between spaces goes.
WithoutParents(name) ==
    LET n == Len(name)
        Parent(i) ==
            /\ i < n /\ name[i] = "." /\ name[i + 1] = "."
            /\ (i + 2 > n \/ name[i + 2] \in {" ", "/"})
        from[i \in 1..(n + 1), spaced \in BOOLEAN] ==
            IF i > n THEN <<>>
            ELSE IF name[i] = "/" THEN <<" ">> \o from[i + 1, TRUE]
            ELSE IF spaced /\ Parent(i) THEN from[i + 2, spaced]
            ELSE <<name[i]>> \o from[i + 1, name[i] = " "]
    IN  from[1, TRUE]

\* split_whitespace().
Tokens(name) ==
    LET Split(tokens, c) ==
            IF c = " " THEN Append(tokens, <<>>) ELSE Append(Front(tokens), Append(Last(tokens), c))
    IN  SelectSeq(FoldLeft(Split, <<<<>>>>, name), LAMBDA t : t # <<>>)

Joined(tokens) == FoldLeft(LAMBDA name, t : IF name = <<>> THEN t ELSE name \o <<" ">> \o t, <<>>, tokens)

OnlyDots(token) == \A i \in DOMAIN token : token[i] = "."

\* Second pass, and the tokens that are more than dots.
KeptTokens(name) == SelectSeq(Tokens(SelectSeq(name, LAMBDA c : c # ":")), LAMBDA t : ~OnlyDots(t))

Sanitized(name) ==
    LET kept == Joined(KeptTokens(WithoutParents(name)))
    IN  IF kept = <<>> THEN Unknown ELSE kept

-----------------------------------------------------------------------------
\* parse_content_disposition(): the first `filename*' that can be decoded, else
\* the first `filename' that is not empty.
Good(p) == p.name # <<>> /\ p.name # Unknown

Parsed(params) ==
    LET extended == SelectSeq(params, LAMBDA p : p.kind = "filename*" /\ Good(p))
        plain == SelectSeq(params, LAMBDA p : p.kind = "filename" /\ p.name # <<>>)
    IN  IF extended # <<>> THEN extended[1].name
        ELSE IF plain # <<>> THEN plain[1].name ELSE <<>>

\* A name of `filename*' that is no UTF-8 cannot be decoded; it stands as Unknown.
Params == [kind : {"filename*"}, name : {<<>>, Unknown, <<Letter>>}]
          \cup [kind : {"filename"}, name : {<<>>, <<Letter, ".">>}] \cup [kind : {"attachment"}, name : {<<>>}]

TypeOK == fileName = <<>> \/ \A i \in DOMAIN fileName : fileName[i] \in Chars \cup {"unknown"}

Init ==
    /\ \/ urlName \in Inputs /\ header = <<>>
       \/ urlName = <<Letter, Letter>> /\ header \in UNION {[1..n -> Params] : n \in 1..3}
    /\ fileName = <<>>

\* extract_filename() of a probe: the name from the URL is cleaned twice.
Extract ==
    /\ fileName = <<>>
    /\ fileName' = IF Parsed(header) # <<>> THEN Sanitized(Parsed(header))
                   ELSE Sanitized(Sanitized(IF urlName = <<>> THEN Unknown ELSE urlName))
    /\ UNCHANGED <<header, urlName>>

Next == Extract

-----------------------------------------------------------------------------
\* A name is one segment of a path and names a file of the directory itself:
\* it is never empty, has no separator, and no word of dots only.
IsSafe(name) ==
    /\ name # <<>> /\ \A i \in DOMAIN name : name[i] \notin {"/", ":"}
    /\ Tokens(name) # <<>> /\ name = Joined(Tokens(name))
    /\ \A i \in DOMAIN Tokens(name) : ~OnlyDots(Tokens(name)[i])

\* Whatever the server and the URL say, the name is safe; cleaning it once more
\* changes nothing (extract_filename cleans twice what comes from the URL, and
\* once what comes from the header); and a name that is safe is left as it is.
NameIsSafe ==
    fileName # <<>> =>
        /\ IsSafe(fileName) /\ Sanitized(fileName) = fileName
        /\ header = <<>> /\ IsSafe(urlName) => fileName = urlName
=============================================================================
