-------------------------------- MODULE Lexer --------------------------------
(***************************************************************************)
(* lexer.c, with the reading of characters from string.c: one token after  *)
(* another, or the same once more, from a text that is known.              *)
(*                                                                         *)
(* A character stands for those the lexer treats alike: a letter, a digit, *)
(* "+" for a sign, "(" for what is a token of its own, "?" for the rest.   *)
(* Numbers are whole and decimal; the values of tokens are left out.       *)
(* string_copy puts no NUL behind the text: `beyond` is the byte that the  *)
(* look-ahead and strtol find there.  Ghost: `began` is where the lexer    *)
(* stood when the last token was asked for.                                *)
(***************************************************************************)
EXTENDS Integers, Sequences, FiniteSets

CONSTANT Inputs   \* [text, beyond, opts]: a text, what lies behind it, the options that are on

VARIABLES
  input,    \* one of Inputs
  lex,      \* ready, scan, read (a token was), aborted by an assertion, or hung
  place,    \* [pos, line, col]: scan.pos, lns, cols
  open,     \* the quotes that squot and dquot hold
  cur,      \* tok, off, lns, cols and esc of lexer_get_next_token
  term,     \* lexer_term_t
  began

lexVars == <<input, lex, place, open, cur, term, began>>

NUL == ""
Quotes == {"'", "\""}
Digits == {"1"}
Comments == {"COMMENT_SINGLE", "COMMENT_MULTI"}
Letters == {"a", "f", "n", "o"}
Chars == Letters \cup Digits \cup Quotes \cup {" ", "\n", "+", "(", "/", "*", "#", "\\", "?"}
\* A text ends where a NUL is.
ASSUME InputsAssumption == \A i \in Inputs : i.text \in Seq(Chars)

IsIdentFirst(c) == c \in Letters
IsIdent(c) == c \in Letters \cup Digits
IsSkipChar(c) == c \in {" ", "\n"}
Is(option) == option \in input.opts

Text == input.text
Size == Len(Text)
\* string_get_char ends with the text, string_get_next_char looks one byte further
Char(p) == IF p < Size THEN Text[p + 1] ELSE NUL
Ahead(p) == IF p = Size THEN input.beyond ELSE Char(p)

(***************************************************************************)
(* Moving: lexer_get_next_char, lexer_get_previous_char, lexer_set_state   *)
(***************************************************************************)

LineStart(p) == CHOOSE s \in 0..p : /\ s = 0 \/ Text[s] = "\n"
                                    /\ \A k \in (s + 1)..p : Text[k] # "\n"

Moved(w) ==
  CASE Char(w.pos) = NUL  -> w
    [] Char(w.pos) = "\n" -> [pos |-> w.pos + 1, line |-> w.line + 1, col |-> 1]
    [] OTHER              -> [w EXCEPT !.pos = @ + 1, !.col = @ + 1]

\* The column is not given back.
Back_Bug(w) == IF w.pos = 0 THEN w ELSE [w EXCEPT !.pos = @ - 1]
Back(w) ==
  CASE w.pos = 0              -> w
    [] Char(w.pos - 1) = "\n" -> [pos |-> w.pos - 1, line |-> w.line - 1,
                                  col |-> w.pos - LineStart(w.pos - 1)]
    [] OTHER                  -> [w EXCEPT !.pos = @ - 1, !.col = @ - 1]

\* How many characters from p on are in S
Run(p, S) == CHOOSE n \in 0..(Size + 1) : Ahead(p + n) \notin S /\ \A k \in 0..(n - 1) : Ahead(p + k) \in S

\* What strtol takes from p on
Number(p) ==
  LET sign == IF Ahead(p) = "+" THEN 1 ELSE 0
      n    == Run(p + sign, Digits)
  IN  IF n = 0 THEN 0 ELSE sign + n

(***************************************************************************)
(* What a token is called                                                  *)
(***************************************************************************)

Words(tok) ==
  CASE tok = "FALSE" -> {<<"f", "a", "l", "s", "e">>, <<"n", "o">>, <<"o", "f", "f">>}
    [] tok = "TRUE"  -> {<<"t", "r", "u", "e">>, <<"y", "e", "s">>, <<"o", "n">>}
    [] tok = "NULL"  -> {<<"n", "u", "l", "l">>}

\* strncasecmp_c compares the first characters over and over.
SameWord(v, w) == Len(v) = Len(w) /\ v[1] = w[1]
Means(w, tok) == \E v \in Words(tok) : SameWord(v, w)
Name(w, tok) == IF Is("ident_as_str") THEN "STR" ELSE tok
Identified(w) ==
  CASE Means(w, "FALSE") \/ Means(w, "TRUE") -> "BOOL"
    [] Means(w, "NULL") -> Name(w, "IDENT_NULL")
    [] OTHER            -> Name(w, "IDENT")

KindOf(tok, w, chr) ==
  CASE tok = "IDENT" -> Identified(w)
    [] tok = "CHAR" /\ chr = "(" -> "LEFT_PAREN"
    [] OTHER -> tok

(***************************************************************************)
(* lexer_get_next_token                                                    *)
(***************************************************************************)

Token(tok) == [tok |-> tok, from |-> place.pos, line |-> place.line, col |-> place.col, esc |-> FALSE]
NoToken == [tok |-> "NONE", from |-> 0, line |-> 0, col |-> 0, esc |-> FALSE]

Begin ==
  /\ lex \in {"ready", "read"}
  /\ lex' = "scan"
  /\ cur' = Token(IF term.tok \in Quotes /\ place.pos # term.from THEN "STR" ELSE "NONE")
  /\ began' = [pos |-> place.pos, open |-> open, term |-> term]
  /\ UNCHANGED <<input, place, open, term>>

GoOn(t, w) == cur' = t /\ place' = w /\ UNCHANGED <<lex, term>>
Give(up) == lex' = up /\ UNCHANGED <<place, cur, term>>

\* A string needs one quote to be open, and what has no case of its own the end of the text.
Asserts(tok, chr) ==
  CASE tok = "STR" -> Cardinality(open) = 1
    [] tok \in {"NONE"} \cup Comments -> chr = NUL
    [] OTHER -> TRUE

Stop(t, w, chr) ==
  IF ~Asserts(t.tok, chr) THEN Give("aborted")
  ELSE /\ lex' = "read" /\ place' = w /\ cur' = NoToken
       /\ term' = [tok |-> KindOf(t.tok, SubSeq(Text, t.from + 1, w.pos), chr),
                   from |-> t.from, line |-> t.line, col |-> t.col]

In(tok) == lex = "scan" /\ cur.tok = tok /\ Char(place.pos) # NUL
Here == Char(place.pos)
SameInput == UNCHANGED <<input, began>>

TextEnds == lex = "scan" /\ Here = NUL /\ Stop(cur, place, NUL) /\ UNCHANGED open /\ SameInput

\* A comment that is not skipped is a token, its last character that of the token.
CommentEnds(w, chr) ==
  IF Is("skip_comment") THEN GoOn([cur EXCEPT !.tok = "NONE"], w) ELSE Stop(cur, w, chr)

InCommentSingle ==
  /\ In("COMMENT_SINGLE")
  /\ IF Here = "\n" THEN CommentEnds(Moved(place), Here) ELSE GoOn(cur, Moved(place))
  /\ UNCHANGED open /\ SameInput

\* Behind a "*" the next character is passed as well, be it another "*".
InCommentMulti ==
  /\ In("COMMENT_MULTI")
  /\ LET w == Moved(place) IN
     CASE Here # "*"                      -> GoOn(cur, w)
       [] Here = "*" /\ Ahead(w.pos) = "/" -> CommentEnds(Moved(w), "/")
       [] OTHER                           -> GoOn(cur, Moved(w))
  /\ UNCHANGED open /\ SameInput

InIdent ==
  /\ In("IDENT")
  /\ IF IsIdent(Here) THEN GoOn(cur, Moved(place)) ELSE Stop(cur, place, Here)
  /\ UNCHANGED open /\ SameInput

\* Either quote ends a string.
InStr ==
  /\ In("STR")
  /\ CASE Cardinality(open) = 2      -> Give("aborted")
       [] cur.esc \/ Here = "\\"     -> GoOn([cur EXCEPT !.esc = ~@], Moved(place))
       [] ~cur.esc /\ Here \in Quotes -> Stop(cur, IF Is("skip_str") THEN Moved(place) ELSE place, Here)
       [] OTHER                      -> GoOn(cur, Moved(place))
  /\ UNCHANGED open /\ SameInput

AtStart == In("NONE") /\ SameInput

TwoOpen == AtStart /\ Cardinality(open) = 2 /\ Give("aborted") /\ UNCHANGED open
Starts == AtStart /\ Cardinality(open) < 2
StartsStr == Here \in Quotes /\ Is("scan_str")

\* What is neither string, number nor comment: chr is the character last looked at, w its place.
StartChar(w, chr) ==
  CASE IsIdentFirst(chr) -> GoOn(Token("IDENT"), Moved(w))
    [] IsSkipChar(chr)   -> GoOn(Token("NONE"), Moved(w))
    [] OTHER             -> Stop(Token("CHAR"), Moved(w), chr)

\* A quote that is open is closed, and opened if not.  Nothing closes it at the end of a string,
\* and one that is closed and skipped is a character like others.
StartQuote ==
  /\ Starts /\ StartsStr
  /\ open' = IF Here \in open THEN open \ {Here} ELSE open \cup {Here}
  /\ CASE ~Is("skip_str") -> Stop(Token(Here), Moved(place), Here)
       [] Is("skip_str") /\ Here \notin open -> GoOn(Token("STR"), Moved(place))
       [] OTHER -> StartChar(place, Here)

\* The place is set to the end of the number, which the lexer cannot reach behind the text.
\* Behind a sign without a number chr is what follows it, the place that of the sign.
StartNumber ==
  /\ Starts /\ Here \in Digits \cup {"+"}
  /\ LET w == Moved(place)
         n == Number(place.pos) IN
     CASE n = 0                   -> StartChar(Back(w), Ahead(w.pos))
       [] place.pos + n > Size    -> Give("hung")
       [] OTHER                   -> Stop(Token("INT"), [place EXCEPT !.pos = @ + n, !.col = @ + n], Here)
  /\ UNCHANGED open

CommentKind(chr) ==
  CASE Is("scan_comment") /\ chr = "/" -> "COMMENT_SINGLE"
    [] Is("scan_comment") /\ chr = "*" -> "COMMENT_MULTI"
    [] OTHER -> "NONE"

StartSlash ==
  /\ Starts /\ Here = "/"
  /\ LET w == Moved(place)
         kind == CommentKind(Ahead(w.pos)) IN
     IF kind # "NONE" THEN GoOn(Token(kind), Moved(w)) ELSE StartChar(Back(w), Here)
  /\ UNCHANGED open

StartHash ==
  /\ Starts /\ Here = "#" /\ Is("scan_comment")
  /\ GoOn(Token("COMMENT_SINGLE"), Moved(place)) /\ UNCHANGED open

StartOther ==
  /\ Starts /\ ~StartsStr /\ Here \notin Digits \cup {"+", "/"} /\ ~(Here = "#" /\ Is("scan_comment"))
  /\ StartChar(place, Here) /\ UNCHANGED open

\* lexer_unget_token: the place, not the open quotes
Unget ==
  /\ lex \in {"ready", "read"} /\ term.tok # "NONE"
  /\ lex' = "ready"
  /\ place' = [pos |-> term.from, line |-> term.line, col |-> term.col]
  /\ UNCHANGED <<input, open, cur, term, began>>

LexStart(i) ==
  /\ input = i /\ lex = "ready" /\ place = [pos |-> 0, line |-> 1, col |-> 1]
  /\ open = {} /\ cur = NoToken
  /\ term = [tok |-> "NONE", from |-> 0, line |-> 0, col |-> 0]
  /\ began = [pos |-> 0, open |-> {}, term |-> term]
LexInit == \E i \in Inputs : LexStart(i)
LexNext ==
  \/ Begin \/ Unget \/ TextEnds \/ InCommentSingle \/ InCommentMulti \/ InIdent \/ InStr
  \/ TwoOpen \/ StartQuote \/ StartNumber \/ StartSlash \/ StartHash \/ StartOther

(***************************************************************************)
(* The tokens of a text, without a scanner: what begins at p, and its end  *)
(***************************************************************************)

LineAt(p) == 1 + Cardinality({k \in 1..p : Text[k] = "\n"})
ColAt(p) == p - LineStart(p) + 1
Nearest(S, other) == IF S = {} THEN other ELSE CHOOSE p \in S : \A q \in S : p <= q

CommentAt(p) ==
  IF ~Is("scan_comment") THEN "NONE"
  ELSE CASE Char(p) = "#" \/ (Char(p) = "/" /\ Char(p + 1) = "/") -> "COMMENT_SINGLE"
         [] Char(p) = "/" /\ Char(p + 1) = "*" -> "COMMENT_MULTI"
         [] OTHER -> "NONE"
CommentStops(p) ==
  IF CommentAt(p) = "COMMENT_SINGLE" THEN {q + 1 : q \in {r \in p..(Size - 1) : Char(r) = "\n"}}
  ELSE {q + 2 : q \in {r \in (p + 2)..(Size - 2) : Char(r) = "*" /\ Char(r + 1) = "/"}}
CommentEnd(p) == Nearest(CommentStops(p), Size)
SkippedAt(p) == CommentAt(p) # "NONE" /\ Is("skip_comment") /\ CommentStops(p) # {}

\* Where the token begins that follows p
TokenAt(p) ==
  LET at[q \in p..Size] == CASE IsSkipChar(Char(q)) -> at[q + 1]
                             [] SkippedAt(q)          -> at[CommentEnd(q)]
                             [] OTHER               -> q
  IN  at[p]

Escaped(p, q) == Cardinality({k \in p..(q - 1) : \A j \in k..(q - 1) : Char(j) = "\\"}) % 2 = 1
QuotesFrom(p, Q) == {q \in p..(Size - 1) : Char(q) \in Q /\ ~Escaped(p, q)}
WordEnd(p) == Nearest({q \in p..Size : ~IsIdent(Char(q))}, Size)
Word(p) == SubSeq(Text, p + 1, WordEnd(p))
WordKind(w) ==
  CASE w \in Words("FALSE") \cup Words("TRUE") -> "BOOL"
    [] w \in Words("NULL") -> Name(w, "IDENT_NULL")
    [] OTHER -> Name(w, "IDENT")

StrEnd(p) == Nearest({q + 1 : q \in QuotesFrom(p + 1, {Char(p)})}, Size)
NumberFrom(p) == Nearest({q \in p..Size : Char(q) \notin Digits}, Size)

Proper(p) ==
  LET c == Char(p) IN
  CASE c = NUL                         -> <<"NONE", p>>
    [] CommentAt(p) # "NONE"           -> <<CommentAt(p), CommentEnd(p)>>
    [] c \in Quotes /\ Is("scan_str")  -> IF Is("skip_str") THEN <<"STR", StrEnd(p)>> ELSE <<c, p + 1>>
    [] c = "+" /\ Char(p + 1) \in Digits -> <<"INT", NumberFrom(p + 1)>>
    [] c \in Digits                    -> <<"INT", NumberFrom(p)>>
    [] IsIdentFirst(c)                 -> <<WordKind(Word(p)), WordEnd(p)>>
    [] OTHER                           -> <<IF c = "(" THEN "LEFT_PAREN" ELSE "CHAR", p + 1>>

\* What the lexer that began where it did should read, and from where
InString == began.term.tok \in Quotes /\ began.pos # began.term.from
From == IF InString THEN began.pos ELSE TokenAt(began.pos)
Expected == IF InString THEN <<"STR", Nearest(QuotesFrom(From, began.open), Size)>> ELSE Proper(From)

(***************************************************************************)
(* Property                                                                *)
(***************************************************************************)

\* A string that was read leaves its quote open: the next quote of its kind opens nothing.
QuoteStays == Is("skip_str") /\ began.open # {}
\* Once the closing quote was a token the lexer still takes what follows for a string.
StringGoesOn == InString /\ began.open = {}
\* "it's" ends at the apostrophe.
OtherQuote ==
  LET from == IF InString THEN From ELSE From + 1 IN
  Expected[1] = "STR" /\ \E q \in QuotesFrom(from, Quotes) : q < Expected[2] - (IF InString THEN 0 ELSE 1)
\* An even number of stars hides the end of a comment.
EvenStars ==
  \E q \in began.pos..(Expected[2] - 3) : Char(q) = "*" /\ Char(q + 1) = "*" /\ Char(q + 2) = "/"
BareSign == ~InString /\ Char(From) = "+" /\ Char(From + 1) \notin Digits
\* "na" is taken for "no".
TakenForWord ==
  /\ ~InString /\ IsIdentFirst(Char(From))
  /\ \E v \in UNION {Words(tok) : tok \in {"FALSE", "TRUE", "NULL"}} :
       v # Word(From) /\ Len(v) = Len(Word(From)) /\ v[1] = Char(From)
\* The end of the text is decided by a byte that is not part of it.
LooksBehind ==
  /\ input.beyond # NUL /\ Expected[2] = Size
  /\ Char(From) \in Digits \cup {"/", "+"}
Misled == QuoteStays \/ OtherQuote \/ EvenStars \/ BareSign \/ TakenForWord \/ LooksBehind

(* A token, read or read again after lexer_unget_token, is what the text   *)
(* has at the place the lexer stood, from its first character to its last, *)
(* with the line and the column of the first ("operation is stateless,     *)
(* except for opening and closing quotes", lexer.c:740), or one of six     *)
(* known errors misled the lexer.  An assertion fails only when both       *)
(* quotes are open, behind a quote that was a token, or at the end of a    *)
(* comment that is one; it hangs only on a number that ends the text.      *)
TokenRight ==
  CASE lex = "read" ->
         /\ term.line = LineAt(term.from) /\ term.col = ColAt(term.from)
         /\ \/ term.tok = Expected[1] /\ place.pos = Expected[2] /\ (term.tok = "NONE" \/ term.from = From)
            \/ Misled
    [] lex = "aborted" ->
         Cardinality(open) = 2 \/ StringGoesOn \/ (~Is("skip_comment") /\ cur.tok \in Comments)
    [] lex = "hung" -> input.beyond \in Digits /\ Char(Size - 1) \in Digits \cup {"+"}
    [] OTHER -> TRUE
=============================================================================
