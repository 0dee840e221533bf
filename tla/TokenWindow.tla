---------------------------- MODULE TokenWindow ----------------------------
(***************************************************************************)
(* The parser's two-token window over the scanner, pkg/parser/api/parser/  *)
(* parser.go: nextToken makes the peeked token current, then asks the      *)
(* scanner for tokens until one is not a comment, and sorts the comments   *)
(* it meets into the tail of the current token or the head of the next.    *)
(* Nodes live in a map whose key is the token itself, type, text and       *)
(* position: two equal tokens would share a node.                          *)
(***************************************************************************)
EXTENDS Scanner

VARIABLES
  cur, peek,   \* p.curTok and p.peekTok; NoToken before they are set
  headGroup,   \* p.headCommentGroup: comments waiting for the next token
  tailGroup,   \* nextToken's leadingCommentGroup
  node,        \* p.node: token -> its head and its leading (tail) comments
  stmts,       \* the comments appended to the AST as statements of their own
  pc           \* "idle", "scanning" inside nextToken, "failed" after an error

windowVars == <<cur, peek, headGroup, tailGroup, node, stmts, pc>>
vars == <<scannerVars, windowVars>>

NoToken == [type |-> "token_bg", text |-> <<>>, line |-> 0, column |-> 0]

Comment == {"COMMENT", "DOCUMENT"}

Init ==
  /\ ScannerInit
  /\ cur = NoToken /\ peek = NoToken
  /\ headGroup = <<>> /\ tailGroup = <<>> /\ stmts = <<>>
  /\ node = <<>>
  /\ pc = "idle"

\* Parse calls nextToken until the current token is EOF; every parse function
\* checks the peeked token first, and none accepts ILLEGAL.
MayAdvance == pc = "idle" /\ cur.type \notin {"EOF", "ILLEGAL"}

\* nextToken at the end of the text: the waiting comments become statements.
AdvanceToEof ==
  /\ MayAdvance
  /\ peek.type = "EOF"
  /\ cur' = peek
  /\ stmts' = stmts \o headGroup
  /\ headGroup' = <<>>
  /\ UNCHANGED <<peek, tailGroup, node, pc, scannerVars>>

NewNode == [head |-> headGroup, leading |-> <<>>]

\* nextToken elsewhere: the peeked token gets its node and the waiting comments.
Advance ==
  /\ MayAdvance
  /\ peek.type # "EOF"
  /\ cur' = peek
  /\ node' = IF peek = NoToken THEN node
             ELSE [k \in DOMAIN node \cup {peek} |-> IF k = peek THEN NewNode ELSE node[k]]
  /\ headGroup' = IF peek = NoToken THEN headGroup ELSE <<>>
  /\ pc' = "scanning"
  /\ UNCHANGED <<peek, tailGroup, stmts, scannerVars>>

\* Mutant: a comment on the next line still counts as the tail.
OnNextLine(tok) == cur # NoToken /\ tok.line <= cur.line + 1

\* The scanner counts lines by the newlines between tokens, not those inside one.
OnCurrentLine(tok) == cur # NoToken /\ tok.line = cur.line

\* One turn of the loop over comments.
PeekComment(tok) ==
  /\ tok.type \in Comment
  /\ IF OnCurrentLine(tok)
     THEN tailGroup' = Append(tailGroup, tok) /\ UNCHANGED headGroup
     ELSE headGroup' = Append(headGroup, tok) /\ UNCHANGED tailGroup
  /\ peek' = tok
  /\ UNCHANGED <<cur, node, stmts, pc>>

\* The loop ends: the tail comments go to the current token's node.
PeekToken(tok) ==
  /\ tok.type \notin Comment \cup {"error"}
  /\ peek' = tok
  /\ node' = IF tailGroup = <<>> THEN node ELSE [node EXCEPT ![cur].leading = tailGroup]
  /\ tailGroup' = <<>>
  /\ pc' = "idle"
  /\ UNCHANGED <<cur, headGroup, stmts>>

\* The scanner's error ends the parse; what was collected stays where it is.
PeekError(tok) ==
  /\ tok.type = "error"
  /\ peek' = tok
  /\ pc' = "failed"
  /\ UNCHANGED <<cur, headGroup, tailGroup, node, stmts>>

Peek ==
  /\ pc = "scanning"
  /\ NextToken
  /\ LET tok == Last(scanned').token
     IN  PeekComment(tok) \/ PeekToken(tok) \/ PeekError(tok)

Next == AdvanceToEof \/ Advance \/ Peek

Spec == Init /\ [][Next]_vars

-----------------------------------------------------------------------------
\* The calls that returned a token of the text.
Real == {i \in DOMAIN scanned : scanned[i].token.type \notin {"EOF", "error"}}

\* A "@" that ends the text, or stands before a NUL, is returned again by every call.
StuckAt(i) == scanned[i].from = scanned[i].to

\* The newlines that stand before call i's token and inside none of the tokens before it.
NewlinesBefore(i) ==
  {q \in 0 .. scanned[i].from - 1 :
     At(q) = Newline /\ \A j \in 1 .. i - 1 : q \notin scanned[j].from .. scanned[j].to - 1}

\* The text between the end of the previous token and the start of this one.
Between(i) ==
  {At(q) : q \in (IF i = 1 THEN 0 ELSE scanned[i - 1].to) .. scanned[i].from - 1}

\* A token's line and column, counted while runes are skipped, lead back to its first rune: the
\* line counts the newlines between the tokens, the column starts after the last of them.  And
\* nothing but white space lies between two tokens, except the first of two dots, and the digits
\* and units of a duration that turned out illegal.  Positions ascend, so that no two tokens
\* share one, only a stuck "@" comes twice: p.node is keyed by tokens, and the filter of package
\* parser takes equal positions for the same declaration.
PositionsTrue ==
  \A i \in Real :
    /\ scanned[i].token.line = Cardinality(NewlinesBefore(i)) + 1
    /\ scanned[i].token.column = scanned[i].from - Max({-1} \cup NewlinesBefore(i))
    /\ \/ Between(i) \subseteq Blank
       \/ scanned[i].token.type = "DOT" /\ Between(i) \subseteq Blank \cup {"."}
       \/ scanned[i].token.type = "ILLEGAL" /\ At(scanned[i].at) \in Digit
    /\ \A j \in Real : i < j /\ ~StuckAt(i) =>
         LET s == scanned[i].token
             t == scanned[j].token
         IN  s.line < t.line \/ (s.line = t.line /\ s.column < t.column)

\* Duration units by descending size, each with its spelling.
Unit == << <<"h">>, <<"m">>, <<"s">>, <<"m", "s">>, <<"u", "s">>, <<"n", "s">> >>

\* The duration literals, with one digit before each unit.
DurationShape ==
  {FlattenSeq([i \in 1 .. Cardinality(used) |-> <<"1">> \o Unit[SetToSortSeq(used, <)[i]]]) :
     used \in SUBSET DOMAIN Unit \ {{}}}

\* The runes from b up to e with every run of digits shortened to one.
Shape(b, e) ==
  FoldLeft(LAMBDA shape, r : IF r \in Digit /\ shape # <<>> /\ Last(shape) \in Digit
                             THEN shape ELSE Append(shape, r),
           <<>>, SubSeq(data, b + 1, e))

\* The runes from b up to e are a duration: units of descending size, digits before each,
\* not cut in the middle of a millisecond, and no digit after, except after nanoseconds.
IsDuration(b, e) ==
  /\ Shape(b, e) \in DurationShape
  /\ ~(At(e - 1) = "m" /\ At(e) = "s")
  /\ At(e) \in Digit => SubSeq(data, e - 1, e) = <<"n", "s">>

\* A call at a digit returns a DURATION exactly when one starts there, and then the
\* longest; the thirteen functions of scanDuration agree with that one definition.
DurationsExact ==
  scanned # <<>> /\ At(Last(scanned).at) \in Digit =>
    LET s == Last(scanned)
        D == {e \in s.at + 2 .. Len(data) : IsDuration(s.at, e)}
        noUnit == At(EndOf(s.at, Digit)) \notin {Unit[k][1] : k \in DOMAIN Unit}
    IN  /\ s.token.type = (CASE noUnit -> "INT" [] D # {} -> "DURATION" [] OTHER -> "ILLEGAL")
        /\ s.token.type = "DURATION" => s.from = s.at /\ s.to = Max(D)

CommentCalls == {i \in DOMAIN scanned : scanned[i].token.type \in Comment}
OtherCalls   == DOMAIN scanned \ CommentCalls

\* Everywhere the parser holds comment c.
Places(c) ==
  {<<"waiting", i>> : i \in {j \in DOMAIN headGroup : headGroup[j] = c}}
    \cup {<<"statement", i>> : i \in {j \in DOMAIN stmts : stmts[j] = c}}
    \cup UNION {{<<place, k, i>> : i \in {j \in DOMAIN node[k][place] : node[k][place][j] = c}} :
                 k \in DOMAIN node, place \in {"head", "leading"}}

\* Between two calls of nextToken every comment of the text so far is in exactly one place:
\* with the token before it when it starts on that token's line, else with the token after
\* it, waiting until that token is current, or a statement when no token follows.
CommentsKept ==
  pc = "idle" => \A i \in CommentCalls :
    LET c      == scanned[i].token
        before == {j \in OtherCalls : j < i}
        next   == scanned[Min({j \in OtherCalls : j > i})].token
    IN  \E place \in Places(c) :
          /\ Places(c) = {place}
          /\ IF before # {} /\ scanned[Max(before)].token.line = c.line
             THEN SubSeq(place, 1, 2) = <<"leading", scanned[Max(before)].token>>
             ELSE IF next \in DOMAIN node THEN SubSeq(place, 1, 2) = <<"head", next>>
             ELSE place[1] = IF cur.type = "EOF" THEN "statement" ELSE "waiting"

\* A DOCUMENT token ends with a star and a slash: "/*\*+*/" is what scanDocument's comment
\* says of the closing slash.  The code accepts any slash once a star was met.
DocumentClosed ==
  \A i \in DOMAIN scanned : scanned[i].token.type = "DOCUMENT" =>
    LET text == scanned[i].token.text IN SubSeq(text, Len(text) - 1, Len(text)) = <<"*", "/">>
=============================================================================
