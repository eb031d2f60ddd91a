-------------------------------- MODULE RLE --------------------------------
(***************************************************************************)
(* lifecore/sim/rle.py: to_rle and parse_rle, over lifecore/sim/pattern.py *)
(* (normalize).  A pattern is its live cells <<x, y>> and its rule; a text *)
(* is the rule of its header, if it has one, and the tokens of its body.   *)
(* The digits of a count and the wrapping of lines are left out.           *)
(***************************************************************************)
EXTENDS Integers, SequencesExt, FiniteSetsExt

CONSTANTS
  DefaultRule,  \* DEFAULT_RULE
  NoRule        \* the header, or its rule, is missing

ASSUME RuleAssumption == DefaultRule # NoRule

Token(count, tag) == [count |-> count, tag |-> tag]

\* _TOKEN_RE; a count of zero is refused.
Tokens == [count : Nat \ {0}, tag : {"b", "o", "$"}]

Normalize(cells) ==
  IF cells = {} THEN cells
  ELSE LET x0 == Min({c[1] : c \in cells})
           y0 == Min({c[2] : c \in cells})
       IN  {<<c[1] - x0, c[2] - y0>> : c \in cells}

---------------------------------------------------------------------------
(* to_rle.                                                                 *)

\* Mutant of Emit: a token stands for one, however often it is emitted.
EmitOnce(tokens, tag) ==
  IF tokens # << >> /\ Last(tokens).tag = tag THEN tokens ELSE Append(tokens, Token(1, tag))

\* The last run goes on, or another one begins: of cells, and of line ends, so that
\* blank rows are collapsed.
Emit(tokens, tag) ==
  IF tokens # << >> /\ Last(tokens).tag = tag
  THEN [tokens EXCEPT ![Len(tokens)] = Token(@.count + 1, tag)]
  ELSE Append(tokens, Token(1, tag))

\* One past the greatest number in S, which may be empty.
EndOf(S) == IF S = {} THEN 0 ELSE Max(S) + 1

RowEnd(cells, y) == EndOf({c[1] : c \in {d \in cells : d[2] = y}})
Rows(cells) == EndOf({c[2] : c \in cells})

\* A row up to its last live cell.
EmitRow(tokens, cells, y) ==
  LET upTo[x \in 0 .. RowEnd(cells, y)] ==
        IF x = 0 THEN tokens
        ELSE Emit(upTo[x - 1], IF <<x - 1, y>> \in cells THEN "o" ELSE "b")
  IN  upTo[RowEnd(cells, y)]

EmitRows(cells) ==
  LET upTo[y \in 0 .. Rows(cells)] ==
        IF y = 0 THEN << >>
        ELSE EmitRow(IF y = 1 THEN << >> ELSE Emit(upTo[y - 1], "$"), cells, y - 1)
  IN  upTo[Rows(cells)]

ToRLE(pattern) == [rule |-> pattern.rule, body |-> EmitRows(Normalize(pattern.cells))]

---------------------------------------------------------------------------
(* parse_rle.                                                              *)

Origin == [x |-> 0, y |-> 0, cells |-> {}]

ReadToken(s, token) ==
  CASE token.tag = "b" -> [s EXCEPT !.x = @ + token.count]
    [] token.tag = "o" -> [s EXCEPT !.x = @ + token.count,
                                    !.cells = @ \cup {<<s.x + i, s.y>> : i \in 0 .. token.count - 1}]
    [] token.tag = "$" -> [s EXCEPT !.x = 0, !.y = @ + token.count]

Read(body) ==
  LET upTo[i \in 0 .. Len(body)] ==
        IF i = 0 THEN Origin ELSE ReadToken(upTo[i - 1], body[i])
  IN  upTo[Len(body)]

ParseRLE(text) ==
  [cells |-> Read(text.body).cells,
   rule |-> IF text.rule = NoRule THEN DefaultRule ELSE text.rule]
=============================================================================
