--------------------------- MODULE MCTokenWindow ---------------------------
(***************************************************************************)
(* Texts for the scanner and the parser's window: everything short over    *)
(* small alphabets, each of which reaches one part of the scanner, and     *)
(* short sequences of whole pieces for lines and comments.                 *)
(***************************************************************************)
EXTENDS TokenWindow

CONSTANTS MaxComment, MaxDuration, MaxOther, MaxPieces

NonEmpty(S, n) == BoundedSeq(S, n) \ {<<>>}

CommentTexts == NonEmpty({"/", "*", Newline, "a"}, MaxComment)

DurationTexts == {<<"1">> \o t : t \in BoundedSeq({"1", "h", "m", "s", "n", "u"}, MaxDuration - 1)}

OtherTexts ==
  NonEmpty({".", "@", ":", "{", "}", "_", " ", "?", NUL, "doc", "interface", "quote", "backquote"},
           MaxOther)

Piece == { <<"a">>, <<Newline>>, <<"/", "/", "a">>, <<"/", "*", "*", "/">>,
           <<"/", "*", Newline, "*", "/">>, <<"@">>, <<"?">>, <<"1", "h", "1">> }

PieceTexts == {FlattenSeq(t) : t \in NonEmpty(Piece, MaxPieces)}

MCText == CommentTexts \cup DurationTexts \cup OtherTexts \cup PieceTexts

=============================================================================
