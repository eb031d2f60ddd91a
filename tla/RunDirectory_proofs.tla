------------------------ MODULE RunDirectory_proofs ------------------------
(***************************************************************************)
(* What is written to runs/<spec> and what lifeseek reproduce says of it,  *)
(* for all specs, seeds, installations and verdicts.  First the RLE: a     *)
(* pattern that was written and read again is the pattern, moved to the    *)
(* origin.  to_rle and parse_rle are folds over texts and rows of any      *)
(* length; what they compute follows by induction over the steps they      *)
(* take, which is derived here from the well-foundedness of < on Nat.      *)
(***************************************************************************)
EXTENDS RunDirectory, Resume, WellFoundedInduction, SequenceTheorems, FiniteSetTheorems, TLAPS

---------------------------------------------------------------------------
(* Induction, and functions defined step by step.                          *)

LEMMA LeastNat ==
  ASSUME NEW T, T \subseteq Nat, T # {}
  PROVE  \E x \in T : \A y \in T : x <= y
<1> DEFINE R == {p \in Nat \X Nat : p[1] < p[2]}
<1>1. IsWellFoundedOn(R, Nat)
  <2>1. R = OpToRel(<, Nat)
    BY DEF OpToRel
  <2> QED
    BY <2>1, NatLessThanWellFounded
<1>2. ASSUME NEW x \in T, NEW y \in T, ~(<<y, x>> \in R)
      PROVE  x <= y
  <2>1. <<y, x>> \in Nat \X Nat /\ x \in Nat /\ y \in Nat
    OBVIOUS
  <2>2. ~(y < x)
    BY <1>2, <2>1
  <2> QED
    BY <2>1, <2>2
<1> HIDE DEF R
<1>3. \E x \in T : \A y \in T : ~(<<y, x>> \in R)
  BY <1>1, WFMin
<1> QED
  BY <1>2, <1>3

LEMMA Induction ==
  ASSUME NEW S, 0 \in S, \A n \in Nat : n \in S => n + 1 \in S
  PROVE  Nat \subseteq S
<1> SUFFICES ASSUME Nat \ S # {}
             PROVE  FALSE
  OBVIOUS
<1>1. PICK n \in Nat \ S : \A m \in Nat \ S : n <= m
  BY LeastNat
<1>2. n - 1 \in Nat /\ n - 1 \in S
  BY <1>1
<1> QED
  BY <1>1, <1>2

LEMMA BoundedInduction ==
  ASSUME NEW k \in Nat, NEW S, 0 \in S, \A i \in 1 .. k : i - 1 \in S => i \in S
  PROVE  0 .. k \subseteq S
<1> DEFINE T == {n \in Nat : n <= k => n \in S}
<1>1. 0 \in T
  OBVIOUS
<1>2. ASSUME NEW n \in Nat, n \in T
      PROVE  n + 1 \in T
  <2> SUFFICES ASSUME n + 1 <= k
               PROVE  n + 1 \in S
    OBVIOUS
  <2>1. n + 1 \in 1 .. k /\ (n + 1) - 1 = n /\ n \in S
    BY <1>2
  <2> QED
    BY <2>1
<1> HIDE DEF T
<1>3. Nat \subseteq T
  BY <1>1, <1>2, Induction
<1> QED
  BY <1>3 DEF T

\* f starts at a and takes k steps, the i-th of which is F[i].
Follows(f, a, k, F) == f[0] = a /\ \A i \in 1 .. k : f[i] = F[i][f[i - 1]]

LEMMA Recursion ==
  ASSUME NEW D, NEW a \in D, NEW k \in Nat, NEW F \in [1 .. k -> [D -> D]]
  PROVE  \E f \in [0 .. k -> D] : Follows(f, a, k, F)
<1> USE DEF Follows
<1> DEFINE Upto(n) == \E f \in [0 .. n -> D] : f[0] = a /\ \A i \in 1 .. n : f[i] = F[i][f[i - 1]]
           S == {n \in Nat : n <= k => Upto(n)}
<1>1. 0 \in S
  <2> DEFINE f == [i \in 0 .. 0 |-> a]
  <2>1. f \in [0 .. 0 -> D] /\ f[0] = a /\ \A i \in 1 .. 0 : f[i] = F[i][f[i - 1]]
    OBVIOUS
  <2> HIDE DEF f
  <2>2. Upto(0)
    BY <2>1
  <2> QED
    BY <2>2
<1>2. ASSUME NEW n \in Nat, n \in S
      PROVE  n + 1 \in S
  <2> SUFFICES ASSUME n + 1 <= k
               PROVE  Upto(n + 1)
    OBVIOUS
  <2>1. PICK f \in [0 .. n -> D] : f[0] = a /\ \A i \in 1 .. n : f[i] = F[i][f[i - 1]]
    BY <1>2
  <2> DEFINE g == [i \in 0 .. n + 1 |-> IF i = n + 1 THEN F[n + 1][f[n]] ELSE f[i]]
  <2>2. g \in [0 .. n + 1 -> D]
    BY <2>1
  <2>3. g[0] = a
    BY <2>1
  <2>4. ASSUME NEW i \in 1 .. n + 1
        PROVE  g[i] = F[i][g[i - 1]]
    <3>1. i - 1 \in 0 .. n /\ i - 1 # n + 1 /\ i \in 0 .. n + 1
      OBVIOUS
    <3>2. g[i - 1] = f[i - 1]
      BY <3>1
    <3>3. CASE i = n + 1
      BY <3>1, <3>2, <3>3
    <3>4. CASE i # n + 1
      BY <2>1, <3>1, <3>2, <3>4
    <3> QED
      BY <3>3, <3>4
  <2> QED
    BY <2>2, <2>3, <2>4
<1> HIDE DEF S
<1>3. Nat \subseteq S
  BY <1>1, <1>2, Induction
<1> QED
  BY <1>3 DEF S

State == [x : Nat, y : Nat, cells : SUBSET (Nat \X Nat)]


Cells(s, count) == {<<s.x + i, s.y>> : i \in 0 .. count - 1}

LEMMA ReadTokenIs ==
  ASSUME NEW s \in State, NEW t \in Tokens
  PROVE  /\ ReadToken(s, t) \in State
         /\ t.tag = "b" => ReadToken(s, t) = [x |-> s.x + t.count, y |-> s.y, cells |-> s.cells]
         /\ t.tag = "o" => ReadToken(s, t) = [x |-> s.x + t.count, y |-> s.y,
                                              cells |-> s.cells \cup Cells(s, t.count)]
         /\ t.tag = "$" => ReadToken(s, t) = [x |-> 0, y |-> s.y + t.count, cells |-> s.cells]
<1>1. s.x \in Nat /\ s.y \in Nat /\ s.cells \subseteq Nat \X Nat /\ t.count \in Nat
  BY DEF State, Tokens
<1>2. s = [x |-> s.x, y |-> s.y, cells |-> s.cells]
  BY DEF State
<1>3. CASE t.tag = "b"
  <2>1. ReadToken(s, t) = [x |-> s.x + t.count, y |-> s.y, cells |-> s.cells]
    BY <1>2, <1>3 DEF ReadToken
  <2> QED
    BY <1>1, <1>3, <2>1 DEF State
<1>4. CASE t.tag = "o"
  <2>1. ReadToken(s, t) = [x |-> s.x + t.count, y |-> s.y, cells |-> s.cells \cup Cells(s, t.count)]
    BY <1>2, <1>4 DEF ReadToken, Cells
  <2>2. Cells(s, t.count) \subseteq Nat \X Nat
    BY <1>1 DEF Cells
  <2> QED
    BY <1>1, <1>4, <2>1, <2>2 DEF State
<1>5. CASE t.tag = "$"
  <2>1. ReadToken(s, t) = [x |-> 0, y |-> s.y + t.count, cells |-> s.cells]
    BY <1>2, <1>5 DEF ReadToken
  <2> QED
    BY <1>1, <1>5, <2>1 DEF State
<1> QED
  BY <1>3, <1>4, <1>5 DEF Tokens

LEMMA ReadSteps ==
  ASSUME NEW body \in Seq(Tokens)
  PROVE  \E f \in [0 .. Len(body) -> State] :
           /\ f[0] = Origin
           /\ \A i \in 1 .. Len(body) : f[i] = ReadToken(f[i - 1], body[i])
           /\ Read(body) = f[Len(body)]
<1> DEFINE k == Len(body)
           F == [i \in 1 .. k |-> [s \in State |-> ReadToken(s, body[i])]]
           upTo[i \in 0 .. k] == IF i = 0 THEN Origin ELSE ReadToken(upTo[i - 1], body[i])
<1>1. k \in Nat /\ Origin \in State /\ \A i \in 1 .. k : body[i] \in Tokens
  BY DEF Origin, State
<1>2. F \in [1 .. k -> [State -> State]]
  BY <1>1, ReadTokenIs
<1> HIDE DEF F, k, upTo
<1>3. PICK f \in [0 .. k -> State] : Follows(f, Origin, k, F)
  BY <1>1, <1>2, Recursion
<1>4. \A i \in 1 .. k : f[i - 1] \in State /\ f[i] = ReadToken(f[i - 1], body[i])
  BY <1>1, <1>3 DEF F, Follows
<1>5. f = [i \in 0 .. k |-> IF i = 0 THEN Origin ELSE ReadToken(f[i - 1], body[i])]
  BY <1>1, <1>3, <1>4 DEF Follows
<1>6. upTo = [i \in 0 .. k |-> IF i = 0 THEN Origin ELSE ReadToken(upTo[i - 1], body[i])]
  BY <1>5 DEF upTo
<1>7. Read(body) = upTo[k]
  BY DEF Read, k, upTo
<1>8. 0 .. k \subseteq {i \in 0 .. k : upTo[i] \in State}
  <2> DEFINE S == {i \in 0 .. k : upTo[i] \in State}
  <2>1. 0 \in S
    BY <1>1, <1>6
  <2>2. ASSUME NEW i \in 1 .. k, i - 1 \in S
        PROVE  i \in S
    <3>1. upTo[i] = ReadToken(upTo[i - 1], body[i])
      BY <1>1, <1>6
    <3> QED
      BY <1>1, <2>2, <3>1, ReadTokenIs
  <2> HIDE DEF S
  <2>3. 0 .. k \subseteq S
    BY <1>1, <2>1, <2>2, BoundedInduction
  <2> QED
    BY <2>3 DEF S
<1>9. upTo \in [0 .. k -> State]
  BY <1>1, <1>6, <1>8
<1>10. upTo[0] = Origin /\ \A i \in 1 .. k : upTo[i] = ReadToken(upTo[i - 1], body[i])
  BY <1>1, <1>6
<1> QED
  BY <1>7, <1>9, <1>10 DEF k

LEMMA ReadAppend ==
  ASSUME NEW body \in Seq(Tokens), NEW t \in Tokens
  PROVE  /\ Read(body) \in State
         /\ Read(Append(body, t)) = ReadToken(Read(body), t)
<1> DEFINE k == Len(body)
           more == Append(body, t)
<1>1. k \in Nat /\ more \in Seq(Tokens) /\ Len(more) = k + 1 /\ more[k + 1] = t
      /\ \A i \in 1 .. k : more[i] = body[i]
  OBVIOUS
<1> HIDE DEF more, k
<1>2. PICK f \in [0 .. k -> State] :
        /\ f[0] = Origin
        /\ \A i \in 1 .. k : f[i] = ReadToken(f[i - 1], body[i])
        /\ Read(body) = f[k]
  BY ReadSteps DEF k
<1>3. PICK g \in [0 .. k + 1 -> State] :
        /\ g[0] = Origin
        /\ \A i \in 1 .. k + 1 : g[i] = ReadToken(g[i - 1], more[i])
        /\ Read(more) = g[k + 1]
  BY <1>1, ReadSteps
<1> DEFINE S == {i \in 0 .. k : f[i] = g[i]}
<1>4. 0 \in S
  BY <1>1, <1>2, <1>3
<1>5. ASSUME NEW i \in 1 .. k, i - 1 \in S
      PROVE  i \in S
  BY <1>1, <1>2, <1>3, <1>5
<1> HIDE DEF S
<1>6. 0 .. k \subseteq S
  BY <1>1, <1>4, <1>5, BoundedInduction
<1>7. f[k] = g[k] /\ f[k] \in State
  BY <1>1, <1>6 DEF S
<1>8. g[k + 1] = ReadToken(g[k], t)
  BY <1>1, <1>3
<1> QED
  BY <1>2, <1>3, <1>7, <1>8 DEF more

LEMMA ReadNothing == Read(<< >>) = Origin
<1>1. << >> \in Seq(Tokens) /\ Len(<< >>) = 0
  OBVIOUS
<1> QED
  BY <1>1, ReadSteps

Tags == {"b", "o", "$"}

LEMMA ReadInTwo ==
  ASSUME NEW s \in State, NEW c \in Nat \ {0}, NEW tag \in Tags
  PROVE  ReadToken(s, Token(c + 1, tag)) = ReadToken(ReadToken(s, Token(c, tag)), Token(1, tag))
<1> DEFINE m == ReadToken(s, Token(c, tag))
<1>1. Token(c, tag) \in Tokens /\ Token(1, tag) \in Tokens /\ Token(c + 1, tag) \in Tokens
  BY DEF Token, Tokens, Tags
<1>2. s.x \in Nat /\ s.y \in Nat
  BY DEF State
<1>3. m \in State
  BY <1>1, ReadTokenIs
<1>4. CASE tag = "b"
  <2>1. m = [x |-> s.x + c, y |-> s.y, cells |-> s.cells]
    BY <1>1, <1>4, ReadTokenIs DEF Token
  <2>2. ReadToken(m, Token(1, tag)) = [x |-> m.x + 1, y |-> m.y, cells |-> m.cells]
    BY <1>1, <1>3, <1>4, ReadTokenIs DEF Token
  <2>3. ReadToken(s, Token(c + 1, tag)) = [x |-> s.x + (c + 1), y |-> s.y, cells |-> s.cells]
    BY <1>1, <1>4, ReadTokenIs DEF Token
  <2> QED
    BY <1>2, <2>1, <2>2, <2>3
<1>5. CASE tag = "o"
  <2>1. m = [x |-> s.x + c, y |-> s.y, cells |-> s.cells \cup Cells(s, c)]
    BY <1>1, <1>5, ReadTokenIs DEF Token
  <2>2. ReadToken(m, Token(1, tag)) = [x |-> m.x + 1, y |-> m.y, cells |-> m.cells \cup Cells(m, 1)]
    BY <1>1, <1>3, <1>5, ReadTokenIs DEF Token
  <2>3. ReadToken(s, Token(c + 1, tag)) =
          [x |-> s.x + (c + 1), y |-> s.y, cells |-> s.cells \cup Cells(s, c + 1)]
    BY <1>1, <1>5, ReadTokenIs DEF Token
  <2>4. m.x = s.x + c /\ m.y = s.y
    BY <2>1
  <2>5. Cells(s, c + 1) = Cells(s, c) \cup Cells(m, 1)
    <3>1. 0 .. (c + 1) - 1 = (0 .. c - 1) \cup {c} /\ 0 .. 1 - 1 = {0}
      OBVIOUS
    <3>2. Cells(m, 1) = {<<s.x + c, s.y>>}
      BY <1>2, <2>4, <3>1 DEF Cells
    <3> QED
      BY <3>1, <3>2 DEF Cells
  <2> QED
    BY <1>2, <2>1, <2>2, <2>3, <2>5
<1>6. CASE tag = "$"
  <2>1. m = [x |-> 0, y |-> s.y + c, cells |-> s.cells]
    BY <1>1, <1>6, ReadTokenIs DEF Token
  <2>2. ReadToken(m, Token(1, tag)) = [x |-> 0, y |-> m.y + 1, cells |-> m.cells]
    BY <1>1, <1>3, <1>6, ReadTokenIs DEF Token
  <2>3. ReadToken(s, Token(c + 1, tag)) = [x |-> 0, y |-> s.y + (c + 1), cells |-> s.cells]
    BY <1>1, <1>6, ReadTokenIs DEF Token
  <2> QED
    BY <1>2, <2>1, <2>2, <2>3
<1> QED
  BY <1>4, <1>5, <1>6 DEF Tags

LEMMA ReadEmit ==
  ASSUME NEW body \in Seq(Tokens), NEW tag \in Tags
  PROVE  /\ Emit(body, tag) \in Seq(Tokens)
         /\ Read(Emit(body, tag)) = ReadToken(Read(body), Token(1, tag))
<1>1. Token(1, tag) \in Tokens
  BY DEF Token, Tokens, Tags
<1>2. CASE body # << >> /\ Last(body).tag = tag
  <2> DEFINE k == Len(body)
             front == [i \in 1 .. k - 1 |-> body[i]]
             c == body[k].count
  <2>1. k \in Nat \ {0} /\ front \in Seq(Tokens) /\ Len(front) = k - 1 /\ body[k] \in Tokens
    <3>1. k \in Nat \ {0} /\ \A i \in 1 .. k : body[i] \in Tokens
      BY <1>2
    <3>2. front \in Seq(Tokens) /\ Len(front) = k - 1
      BY <3>1
    <3> QED
      BY <3>1, <3>2
  <2>2. \A i \in 1 .. k - 1 : front[i] = body[i]
    BY <2>1
  <2>3. c \in Nat \ {0} /\ body[k] = Token(c, tag)
    BY <1>2, <2>1 DEF Tokens, Token, Last
  <2>4. Token(c, tag) \in Tokens /\ Token(c + 1, tag) \in Tokens
    BY <2>3 DEF Token, Tokens, Tags
  <2>5. body = Append(front, Token(c, tag))
    BY <2>1, <2>2, <2>3
  <2>6. Emit(body, tag) = Append(front, Token(c + 1, tag))
    <3>1. Emit(body, tag) = [body EXCEPT ![k] = Token(c + 1, tag)]
      BY <1>2 DEF Emit
    <3> QED
      BY <2>1, <2>2, <3>1
  <2> HIDE DEF k, front, c
  <2>7. Read(body) = ReadToken(Read(front), Token(c, tag)) /\ Read(front) \in State
    BY <2>1, <2>4, <2>5, ReadAppend
  <2>8. Read(Emit(body, tag)) = ReadToken(Read(front), Token(c + 1, tag))
    BY <2>1, <2>4, <2>6, ReadAppend
  <2>9. Emit(body, tag) \in Seq(Tokens)
    BY <2>1, <2>4, <2>6
  <2> QED
    BY <2>3, <2>7, <2>8, <2>9, ReadInTwo
<1>3. CASE ~(body # << >> /\ Last(body).tag = tag)
  <2>1. Emit(body, tag) = Append(body, Token(1, tag))
    BY <1>3 DEF Emit
  <2> QED
    BY <1>1, <2>1, ReadAppend
<1> QED
  BY <1>2, <1>3

LEMMA EndOfBounds ==
  ASSUME NEW n \in Nat, NEW S \in SUBSET (0 .. n)
  PROVE  EndOf(S) \in Nat /\ S \subseteq 0 .. EndOf(S) - 1 /\ (S = {} => EndOf(S) = 0)
<1>1. CASE S = {}
  BY <1>1 DEF EndOf
<1>2. CASE S # {}
  <2> DEFINE T == {n - i : i \in S}
  <2>1. T \subseteq Nat /\ T # {}
    <3>1. \A i \in S : i \in Nat /\ i <= n /\ n - i \in Nat
      OBVIOUS
    <3> QED
      BY <1>2, <3>1
  <2> HIDE DEF T
  <2>2. PICK t \in T : \A u \in T : t <= u
    BY <2>1, LeastNat
  <2>3. PICK m \in S : t = n - m
    BY DEF T
  <2>4. \A i \in S : m >= i
    <3> SUFFICES ASSUME NEW i \in S
                 PROVE  m >= i
      OBVIOUS
    <3>1. n - i \in T
      BY DEF T
    <3> QED
      BY <2>2, <2>3, <3>1
  <2>5. Max(S) \in S /\ \A i \in S : Max(S) >= i
    BY <2>4 DEF Max
  <2> QED
    <3>1. EndOf(S) = Max(S) + 1
      BY <1>2 DEF EndOf
    <3>2. \A i \in S : i \in Nat
      OBVIOUS
    <3>3. Max(S) \in Nat
      BY <2>5, <3>2
    <3> QED
      BY <1>2, <2>5, <3>1, <3>2, <3>3
<1> QED
  BY <1>1, <1>2

\* What has been read when the cursor is at x of row y.
Done(cells, x, y) ==
  [x |-> x, y |-> y, cells |-> {c \in cells : c[2] < y \/ (c[2] = y /\ c[1] < x)}]

TagAt(cells, x, y) == IF <<x, y>> \in cells THEN "o" ELSE "b"

LEMMA ReadCell ==
  ASSUME NEW n \in Nat, NEW cells \in SUBSET ((0 .. n) \X (0 .. n)), NEW x \in Nat, NEW y \in Nat
  PROVE  /\ Done(cells, x, y) \in State
         /\ ReadToken(Done(cells, x, y), Token(1, TagAt(cells, x, y))) = Done(cells, x + 1, y)
<1> DEFINE s == Done(cells, x, y)
           tag == TagAt(cells, x, y)
<1>1. \A c \in cells : c = <<c[1], c[2]>> /\ c[1] \in Nat /\ c[2] \in Nat
  OBVIOUS
<1>2. s \in State
  BY <1>1 DEF Done, State
<1>3. Token(1, tag) \in Tokens /\ tag \in {"o", "b"} /\ Token(1, tag).tag = tag /\ Token(1, tag).count = 1
  BY DEF Token, Tokens, TagAt
<1>4. s.x = x /\ s.y = y
  BY DEF Done
<1>5. CASE tag = "o"
  <2>1. ReadToken(s, Token(1, tag)) = [x |-> x + 1, y |-> y, cells |-> s.cells \cup Cells(s, 1)]
    BY <1>2, <1>3, <1>4, <1>5, ReadTokenIs
  <2>2. <<x, y>> \in cells
    BY <1>5 DEF TagAt
  <2>3. Cells(s, 1) = {<<x, y>>}
    <3>1. 0 .. 1 - 1 = {0}
      OBVIOUS
    <3> QED
      BY <1>4, <3>1 DEF Cells
  <2>4. s.cells \cup {<<x, y>>} = {c \in cells : c[2] < y \/ (c[2] = y /\ c[1] < x + 1)}
    BY <1>1, <2>2 DEF Done
  <2> QED
    BY <1>2, <2>1, <2>3, <2>4 DEF Done
<1>6. CASE tag = "b"
  <2>1. ReadToken(s, Token(1, tag)) = [x |-> x + 1, y |-> y, cells |-> s.cells]
    BY <1>2, <1>3, <1>4, <1>6, ReadTokenIs
  <2>2. <<x, y>> \notin cells
    BY <1>6 DEF TagAt
  <2>3. s.cells = {c \in cells : c[2] < y \/ (c[2] = y /\ c[1] < x + 1)}
    BY <1>1, <2>2 DEF Done
  <2> QED
    BY <1>2, <2>1, <2>3 DEF Done
<1> QED
  BY <1>3, <1>5, <1>6

LEMMA ReadRow ==
  ASSUME NEW n \in Nat, NEW cells \in SUBSET ((0 .. n) \X (0 .. n)), NEW y \in Nat,
         NEW tokens \in Seq(Tokens), Read(tokens) = Done(cells, 0, y)
  PROVE  /\ EmitRow(tokens, cells, y) \in Seq(Tokens)
         /\ Read(EmitRow(tokens, cells, y)) = Done(cells, RowEnd(cells, y), y)
<1> DEFINE k == RowEnd(cells, y)
           F == [x \in 1 .. k |-> [s \in Seq(Tokens) |-> Emit(s, TagAt(cells, x - 1, y))]]
           upTo[x \in 0 .. k] ==
             IF x = 0 THEN tokens
             ELSE Emit(upTo[x - 1], IF <<x - 1, y>> \in cells THEN "o" ELSE "b")
<1>1. k \in Nat
  <2>1. {c[1] : c \in {d \in cells : d[2] = y}} \in SUBSET (0 .. n)
    OBVIOUS
  <2> QED
    BY <2>1, EndOfBounds DEF RowEnd
<1>2. \A x \in Int : TagAt(cells, x, y) \in Tags
  BY DEF TagAt, Tags
<1>3. F \in [1 .. k -> [Seq(Tokens) -> Seq(Tokens)]]
  <2>1. \A x \in 1 .. k, s \in Seq(Tokens) : Emit(s, TagAt(cells, x - 1, y)) \in Seq(Tokens)
    BY <1>1, <1>2, ReadEmit
  <2> QED
    BY <2>1
<1> HIDE DEF F, k, upTo
<1>4. PICK f \in [0 .. k -> Seq(Tokens)] : Follows(f, tokens, k, F)
  BY <1>1, <1>3, Recursion
<1>5. \A x \in 1 .. k : f[x] = Emit(f[x - 1], TagAt(cells, x - 1, y))
  <2> TAKE x \in 1 .. k
  <2>1. f[x] = F[x][f[x - 1]]
    BY <1>4 DEF Follows
  <2>2. f[x - 1] \in Seq(Tokens)
    BY <1>1
  <2> QED
    BY <2>1, <2>2 DEF F
<1>6. f = [x \in 0 .. k |-> IF x = 0 THEN tokens
                            ELSE Emit(f[x - 1], IF <<x - 1, y>> \in cells THEN "o" ELSE "b")]
  BY <1>1, <1>4, <1>5 DEF Follows, TagAt
<1>7. upTo = [x \in 0 .. k |-> IF x = 0 THEN tokens
                               ELSE Emit(upTo[x - 1], IF <<x - 1, y>> \in cells THEN "o" ELSE "b")]
  BY <1>6 DEF upTo
<1>8. EmitRow(tokens, cells, y) = upTo[k]
  BY DEF EmitRow, k, upTo
<1> DEFINE S == {x \in 0 .. k : upTo[x] \in Seq(Tokens) /\ Read(upTo[x]) = Done(cells, x, y)}
<1>9. 0 \in S
  BY <1>1, <1>7
<1>10. ASSUME NEW x \in 1 .. k, x - 1 \in S
       PROVE  x \in S
  <2>1. x - 1 \in Nat /\ (x - 1) + 1 = x
    BY <1>1
  <2>2. upTo[x] = Emit(upTo[x - 1], TagAt(cells, x - 1, y))
    BY <1>1, <1>7 DEF TagAt
  <2>3. /\ upTo[x] \in Seq(Tokens)
        /\ Read(upTo[x]) = ReadToken(Done(cells, x - 1, y), Token(1, TagAt(cells, x - 1, y)))
    <3>1. /\ upTo[x - 1] \in Seq(Tokens) /\ TagAt(cells, x - 1, y) \in Tags
          /\ Read(upTo[x - 1]) = Done(cells, x - 1, y)
      BY <1>2, <1>10
    <3> QED
      BY <2>2, <3>1, ReadEmit
  <2>4. Read(upTo[x]) = Done(cells, x, y)
    <3>1. \A w \in Nat : ReadToken(Done(cells, w, y), Token(1, TagAt(cells, w, y))) = Done(cells, w + 1, y)
      BY ReadCell
    <3>2. ReadToken(Done(cells, x - 1, y), Token(1, TagAt(cells, x - 1, y))) = Done(cells, (x - 1) + 1, y)
      BY <2>1, <3>1
    <3> QED
      BY <2>1, <2>3, <3>2
  <2> QED
    BY <1>1, <2>3, <2>4
<1> HIDE DEF S
<1>11. 0 .. k \subseteq S
  BY <1>1, <1>9, <1>10, BoundedInduction
<1>12. k \in S
  BY <1>1, <1>11
<1> QED
  BY <1>8, <1>12 DEF S, k

LEMMA ReadRows ==
  ASSUME NEW n \in Nat, NEW cells \in SUBSET ((0 .. n) \X (0 .. n))
  PROVE  EmitRows(cells) \in Seq(Tokens) /\ Read(EmitRows(cells)).cells = cells
<1> DEFINE k == Rows(cells)
           RowFrom(s, y) == EmitRow(IF y = 1 THEN << >> ELSE Emit(s, "$"), cells, y - 1)
           upTo[y \in 0 .. k] ==
             IF y = 0 THEN << >>
             ELSE EmitRow(IF y = 1 THEN << >> ELSE Emit(upTo[y - 1], "$"), cells, y - 1)
           Good(s, y) == /\ s \in Seq(Tokens)
                         /\ y > 0 => Read(s) = Done(cells, RowEnd(cells, y - 1), y - 1)
                         /\ y = 0 => s = << >>
<1>1. k \in Nat /\ (\A c \in cells : c = <<c[1], c[2]>> /\ c[1] \in Nat /\ c[2] \in 0 .. k - 1)
      /\ (cells = {} => k = 0)
  <2>1. {c[2] : c \in cells} \in SUBSET (0 .. n)
    OBVIOUS
  <2>2. k \in Nat /\ {c[2] : c \in cells} \subseteq 0 .. k - 1 /\ ({c[2] : c \in cells} = {} => k = 0)
    BY <2>1, EndOfBounds DEF Rows
  <2> QED
    BY <2>2
<1>2. \A y \in Nat : \A c \in cells : c[2] = y => c[1] < RowEnd(cells, y)
  <2> TAKE y \in Nat
  <2> DEFINE line == {c[1] : c \in {d \in cells : d[2] = y}}
  <2>1. line \in SUBSET (0 .. n)
    OBVIOUS
  <2>2. EndOf(line) \in Nat /\ line \subseteq 0 .. EndOf(line) - 1
    BY <2>1, EndOfBounds
  <2>3. RowEnd(cells, y) = EndOf(line)
    BY DEF RowEnd
  <2>4. \A c \in cells : c[2] = y => c[1] \in line
    OBVIOUS
  <2> HIDE DEF line
  <2> QED
    BY <2>2, <2>3, <2>4
<1>3. \A y \in Nat : RowEnd(cells, y) \in Nat
  <2> TAKE y \in Nat
  <2>1. {c[1] : c \in {d \in cells : d[2] = y}} \in SUBSET (0 .. n)
    OBVIOUS
  <2> QED
    BY <2>1, EndOfBounds DEF RowEnd
<1> HIDE DEF k, upTo
\* One row more.
<1>4. ASSUME NEW y \in Nat \ {0}, NEW s, Good(s, y - 1)
      PROVE  Good(RowFrom(s, y), y)
  <2> DEFINE before == IF y = 1 THEN << >> ELSE Emit(s, "$")
  <2>1. before \in Seq(Tokens) /\ Read(before) = Done(cells, 0, y - 1)
    <3>1. CASE y = 1
      <4>1. {c \in cells : c[2] < 0 \/ (c[2] = 0 /\ c[1] < 0)} = {}
        BY <1>1
      <4>2. Done(cells, 0, 0) = Origin
        BY <4>1 DEF Done, Origin
      <4> QED
        BY <3>1, <4>2, ReadNothing
    <3>2. CASE y # 1
      <4> DEFINE z == y - 2
      <4>1. z \in Nat /\ y - 1 = z + 1 /\ y - 1 > 0 /\ (y - 1) - 1 = z
        BY <3>2
      <4>2. s \in Seq(Tokens) /\ Read(s) = Done(cells, RowEnd(cells, z), z)
        BY <1>4, <4>1
      <4>3. Token(1, "$") \in Tokens /\ Token(1, "$").tag = "$" /\ Token(1, "$").count = 1
            /\ "$" \in Tags
        BY DEF Token, Tokens, Tags
      <4>4. before \in Seq(Tokens) /\ Read(before) = ReadToken(Read(s), Token(1, "$"))
        BY <3>2, <4>2, <4>3, ReadEmit
      <4>5. Done(cells, RowEnd(cells, z), z) \in State
        BY <1>3, <4>1, ReadCell
      <4>6. Read(before) = [x |-> 0, y |-> z + 1, cells |-> Done(cells, RowEnd(cells, z), z).cells]
        <5>1. Done(cells, RowEnd(cells, z), z).y = z
          BY DEF Done
        <5> QED
          BY <4>2, <4>3, <4>4, <4>5, <5>1, ReadTokenIs
      <4>7. Done(cells, RowEnd(cells, z), z).cells
              = {c \in cells : c[2] < z + 1 \/ (c[2] = z + 1 /\ c[1] < 0)}
        BY <1>1, <1>2, <4>1 DEF Done
      <4> QED
        BY <4>1, <4>4, <4>6, <4>7 DEF Done
    <3> QED
      BY <3>1, <3>2
  <2>2. y - 1 \in Nat /\ y > 0 /\ y # 0
    OBVIOUS
  <2> HIDE DEF before
  <2>3. /\ EmitRow(before, cells, y - 1) \in Seq(Tokens)
        /\ Read(EmitRow(before, cells, y - 1)) = Done(cells, RowEnd(cells, y - 1), y - 1)
    BY <2>1, <2>2, ReadRow
  <2> QED
    BY <2>2, <2>3 DEF before
<1> DEFINE F == [y \in 1 .. k |-> [s \in Seq(Tokens) |-> IF Good(s, y - 1) THEN RowFrom(s, y) ELSE << >>]]
<1>5. F \in [1 .. k -> [Seq(Tokens) -> Seq(Tokens)]]
  <2>1. \A y \in 1 .. k, s \in Seq(Tokens) : (IF Good(s, y - 1) THEN RowFrom(s, y) ELSE << >>) \in Seq(Tokens)
    <3> TAKE y \in 1 .. k, s \in Seq(Tokens)
    <3>1. y \in Nat \ {0} /\ << >> \in Seq(Tokens)
      BY <1>1
    <3>2. Good(s, y - 1) => Good(RowFrom(s, y), y)
      BY <1>4, <3>1
    <3> HIDE DEF RowFrom
    <3> QED
      BY <3>1, <3>2
  <2> HIDE DEF Good, RowFrom
  <2> QED
    BY <2>1
<1> HIDE DEF F, RowFrom, Good
<1>6. PICK f \in [0 .. k -> Seq(Tokens)] : Follows(f, << >>, k, F)
  <2>1. << >> \in Seq(Tokens)
    OBVIOUS
  <2> QED
    BY <1>1, <1>5, <2>1, Recursion
<1>7. 0 .. k \subseteq {y \in 0 .. k : Good(f[y], y)}
  <2> DEFINE S == {y \in 0 .. k : Good(f[y], y)}
  <2>1. 0 \in S
    BY <1>1, <1>6 DEF Follows, Good
  <2>2. ASSUME NEW y \in 1 .. k, y - 1 \in S
        PROVE  y \in S
    <3>1. f[y] = F[y][f[y - 1]] /\ f[y - 1] \in Seq(Tokens) /\ Good(f[y - 1], y - 1) /\ y \in Nat \ {0}
      <4>1. y - 1 \in 0 .. k /\ y \in Nat \ {0}
        BY <1>1
      <4>2. f[y] = F[y][f[y - 1]]
        BY <1>6 DEF Follows
      <4>3. f[y - 1] \in Seq(Tokens)
        BY <1>6, <4>1
      <4>4. Good(f[y - 1], y - 1)
        BY <2>2
      <4> QED
        BY <4>1, <4>2, <4>3, <4>4
    <3>2. f[y] = RowFrom(f[y - 1], y)
      BY <3>1 DEF F
    <3>3. Good(f[y], y)
      BY <1>4, <3>1, <3>2
    <3> QED
      BY <3>3, <1>1
  <2> HIDE DEF S
  <2>3. 0 .. k \subseteq S
    BY <1>1, <2>1, <2>2, BoundedInduction
  <2> QED
    BY <2>3 DEF S
<1>8. \A y \in 1 .. k : f[y] = RowFrom(f[y - 1], y)
  <2> TAKE y \in 1 .. k
  <2>1. f[y] = F[y][f[y - 1]] /\ f[y - 1] \in Seq(Tokens) /\ Good(f[y - 1], y - 1)
    <3>1. y - 1 \in 0 .. k
      BY <1>1
    <3>2. f[y] = F[y][f[y - 1]]
      BY <1>6 DEF Follows
    <3>3. f[y - 1] \in Seq(Tokens)
      BY <1>6, <3>1
    <3>4. Good(f[y - 1], y - 1)
      BY <1>7, <3>1
    <3> QED
      BY <3>2, <3>3, <3>4
  <2>2. F[y] = [s \in Seq(Tokens) |-> IF Good(s, y - 1) THEN RowFrom(s, y) ELSE << >>]
    BY DEF F
  <2> QED
    BY <2>1, <2>2
<1>9. f = [y \in 0 .. k |->
             IF y = 0 THEN << >>
             ELSE EmitRow(IF y = 1 THEN << >> ELSE Emit(f[y - 1], "$"), cells, y - 1)]
  <2>1. f[0] = << >>
    BY <1>6 DEF Follows
  <2>2. \A y \in 0 .. k : y # 0 => y \in 1 .. k
    BY <1>1
  <2>3. \A y \in 1 .. k : f[y] = EmitRow(IF y = 1 THEN << >> ELSE Emit(f[y - 1], "$"), cells, y - 1)
    BY <1>8 DEF RowFrom
  <2> QED
    BY <2>1, <2>2, <2>3
<1>10. upTo = [y \in 0 .. k |->
                IF y = 0 THEN << >>
                ELSE EmitRow(IF y = 1 THEN << >> ELSE Emit(upTo[y - 1], "$"), cells, y - 1)]
  BY <1>9 DEF upTo
<1>11. EmitRows(cells) = upTo[k]
  BY DEF EmitRows, k, upTo
<1> DEFINE S == {y \in 0 .. k : Good(upTo[y], y)}
<1>12. 0 \in S
  BY <1>1, <1>10 DEF Good
<1>13. ASSUME NEW y \in 1 .. k, y - 1 \in S
       PROVE  y \in S
  <2>1. y \in Nat \ {0} /\ y \in 0 .. k /\ Good(upTo[y - 1], y - 1)
    BY <1>1, <1>13
  <2>2. upTo[y] = RowFrom(upTo[y - 1], y)
    BY <1>10, <2>1 DEF RowFrom
  <2>3. Good(upTo[y], y)
    BY <1>4, <2>1, <2>2
  <2> QED
    BY <2>1, <2>3
<1> HIDE DEF S
<1>14. 0 .. k \subseteq S
  BY <1>1, <1>12, <1>13, BoundedInduction
<1>15. Good(upTo[k], k)
  BY <1>1, <1>14 DEF S
<1>16. CASE k = 0
  <2>1. cells = {}
    BY <1>1, <1>16
  <2>2. upTo[k] = << >>
    BY <1>15, <1>16 DEF Good
  <2> QED
    BY <1>11, <2>1, <2>2, ReadNothing DEF Origin
<1>17. CASE k # 0
  <2>1. k > 0 /\ k - 1 \in Nat
    BY <1>1, <1>17
  <2>2. upTo[k] \in Seq(Tokens) /\ Read(upTo[k]) = Done(cells, RowEnd(cells, k - 1), k - 1)
    BY <1>15, <2>1 DEF Good
  <2>3. {c \in cells : c[2] < k - 1 \/ (c[2] = k - 1 /\ c[1] < RowEnd(cells, k - 1))} = cells
    BY <1>1, <1>2, <2>1
  <2> QED
    BY <1>11, <2>2, <2>3 DEF Done
<1> QED
  BY <1>16, <1>17

Bounded(cells) == \E n \in Nat : cells \subseteq (0 .. n) \X (0 .. n)

LEMMA ReadBounded ==
  ASSUME NEW body \in Seq(Tokens)
  PROVE  Bounded(Read(body).cells)
<1> DEFINE k == Len(body)
<1>1. k \in Nat /\ \A i \in 1 .. k : body[i] \in Tokens
  OBVIOUS
<1> HIDE DEF k
<1>2. PICK f \in [0 .. k -> State] :
        /\ f[0] = Origin
        /\ \A i \in 1 .. k : f[i] = ReadToken(f[i - 1], body[i])
        /\ Read(body) = f[k]
  BY ReadSteps DEF k
<1> DEFINE S == {i \in 0 .. k : Bounded(f[i].cells)}
<1>3. 0 \in S
  <2>1. {} \subseteq (0 .. 0) \X (0 .. 0) /\ 0 \in Nat
    OBVIOUS
  <2>2. Bounded({})
    BY <2>1 DEF Bounded
  <2>3. f[0].cells = {}
    BY <1>2 DEF Origin
  <2>4. 0 \in 0 .. k
    BY <1>1
  <2> QED
    BY <2>2, <2>3, <2>4
<1>4. ASSUME NEW i \in 1 .. k, i - 1 \in S
      PROVE  i \in S
  <2> DEFINE s == f[i - 1]
             t == body[i]
  <2>1. s \in State /\ t \in Tokens /\ f[i] = ReadToken(s, t) /\ i \in 0 .. k
    BY <1>1, <1>2
  <2>2. PICK n \in Nat : s.cells \subseteq (0 .. n) \X (0 .. n)
    BY <1>4 DEF Bounded
  <2>3. f[i].cells \in {s.cells, s.cells \cup Cells(s, t.count)}
    BY <2>1, ReadTokenIs DEF Tokens
  <2>4. s.x \in Nat /\ s.y \in Nat /\ t.count \in Nat
    BY <2>1 DEF State, Tokens
  <2> HIDE DEF s, t
  <2>8. PICK m \in Nat : n <= m /\ s.y <= m /\ s.x + t.count <= m
    <3>1. \A a, b, c \in Nat : \E m \in Nat : n <= m /\ b <= m /\ a + c <= m
      <4> TAKE a, b, c \in Nat
      <4> WITNESS n + a + b + c \in Nat
      <4> QED
        OBVIOUS
    <3> QED
      BY <2>4, <3>1
  <2>5. s.cells \subseteq (0 .. m) \X (0 .. m)
    <3>1. 0 .. n \subseteq 0 .. m
      BY <2>8
    <3> QED
      BY <2>2, <3>1
  <2>6. Cells(s, t.count) \subseteq (0 .. m) \X (0 .. m)
    <3> SUFFICES ASSUME NEW j \in 0 .. t.count - 1
                 PROVE  s.x + j \in 0 .. m /\ s.y \in 0 .. m
      BY DEF Cells
    <3> QED
      BY <2>4, <2>8
  <2>7. f[i].cells \subseteq (0 .. m) \X (0 .. m)
    BY <2>3, <2>5, <2>6
  <2> QED
    BY <2>1, <2>7, <2>8 DEF Bounded
<1> HIDE DEF S
<1>5. 0 .. k \subseteq S
  BY <1>1, <1>3, <1>4, BoundedInduction
<1>6. k \in S
  BY <1>1, <1>5
<1> QED
  BY <1>2, <1>6 DEF S

LEMMA MinOf ==
  ASSUME NEW S, S \subseteq Nat, S # {}
  PROVE  Min(S) \in S /\ \A i \in S : Min(S) <= i
BY LeastNat DEF Min

LEMMA NormalForm ==
  ASSUME NEW cells, Bounded(cells)
  PROVE  /\ Bounded(Normalize(cells))
         /\ Normalize(Normalize(cells)) = Normalize(cells)
         /\ Cardinality(Normalize(cells)) = Cardinality(cells)
<1>1. PICK n \in Nat : cells \subseteq (0 .. n) \X (0 .. n)
  BY DEF Bounded
<1>2. CASE cells = {}
  BY <1>2 DEF Normalize
<1>3. CASE cells # {}
  <2> DEFINE X == {c[1] : c \in cells}
             Y == {c[2] : c \in cells}
             x0 == Min(X)
             y0 == Min(Y)
             move == [c \in cells |-> <<c[1] - x0, c[2] - y0>>]
             moved == {<<c[1] - x0, c[2] - y0>> : c \in cells}
  <2>1. \A c \in cells : c = <<c[1], c[2]>> /\ c[1] \in 0 .. n /\ c[2] \in 0 .. n
    BY <1>1
  <2>2. X # {} /\ X \subseteq Nat /\ Y # {} /\ Y \subseteq Nat
    BY <1>3, <2>1
  <2>3. /\ x0 \in X /\ \A c \in cells : x0 <= c[1]
        /\ y0 \in Y /\ \A c \in cells : y0 <= c[2]
    BY <2>2, MinOf
  <2>4. x0 \in Nat /\ y0 \in Nat
    BY <2>2, <2>3
  <2>5. (\E c \in cells : c[1] = x0) /\ (\E c \in cells : c[2] = y0)
    BY <2>3
  <2>6. Normalize(cells) = moved
    BY <1>3 DEF Normalize
  <2> HIDE DEF X, Y, x0, y0
  <2>7. \A c \in cells : c[1] - x0 \in 0 .. n /\ c[2] - y0 \in 0 .. n
    BY <2>1, <2>3, <2>4
  <2>8. moved \subseteq (0 .. n) \X (0 .. n)
    BY <2>7
  <2>9. Bounded(moved)
    BY <2>8 DEF Bounded
  <2>10. Normalize(moved) = moved
    <3> DEFINE U == {d[1] : d \in moved}
               V == {d[2] : d \in moved}
    <3>1. moved # {} /\ \A d \in moved : d = <<d[1], d[2]>> /\ d[1] \in 0 .. n /\ d[2] \in 0 .. n
      <4>1. moved # {}
        BY <1>3
      <4> HIDE DEF moved
      <4> QED
        BY <2>8, <4>1
    <3>2. 0 \in U /\ 0 \in V
      <4>1. PICK c \in cells : c[1] = x0
        BY <2>5
      <4>2. <<c[1] - x0, c[2] - y0>> \in moved /\ c[1] - x0 = 0
        BY <2>4, <4>1
      <4>3. PICK e \in cells : e[2] = y0
        BY <2>5
      <4>4. <<e[1] - x0, e[2] - y0>> \in moved /\ e[2] - y0 = 0
        BY <2>4, <4>3
      <4> HIDE DEF moved
      <4>5. 0 \in U
        BY <4>2
      <4>6. 0 \in V
        BY <4>4
      <4> QED
        BY <4>5, <4>6
    <3>3. U \subseteq Nat /\ V \subseteq Nat
      BY <3>1
    <3> HIDE DEF U, V
    <3>4. Min(U) = 0 /\ Min(V) = 0
      <4>1. Min(U) \in U /\ \A i \in U : Min(U) <= i
        BY <3>2, <3>3, MinOf
      <4>2. Min(V) \in V /\ \A i \in V : Min(V) <= i
        BY <3>2, <3>3, MinOf
      <4>3. Min(U) \in Nat /\ Min(V) \in Nat /\ Min(U) <= 0 /\ Min(V) <= 0
        BY <3>2, <3>3, <4>1, <4>2
      <4> QED
        BY <4>3
    <3>5. Normalize(moved) = {<<d[1] - 0, d[2] - 0>> : d \in moved}
      BY <3>1, <3>4 DEF Normalize, U, V
    <3>6. \A d \in moved : <<d[1] - 0, d[2] - 0>> = d
      BY <3>1
    <3> HIDE DEF moved
    <3> QED
      BY <3>5, <3>6
  <2>11. Cardinality(moved) = Cardinality(cells)
    <3>1. IsFiniteSet(cells)
      <4>1. IsFiniteSet(0 .. n)
        BY FS_Interval
      <4>2. IsFiniteSet((0 .. n) \X (0 .. n))
        BY <4>1, FS_Product
      <4> QED
        BY <1>1, <4>2, FS_Subset
    <3>2. move \in Bijection(cells, moved)
      <4>1. move \in [cells -> moved]
        OBVIOUS
      <4>2. \A c, d \in cells : move[c] = move[d] => c = d
        <5> TAKE c, d \in cells
        <5>1. c[1] \in Int /\ c[2] \in Int /\ d[1] \in Int /\ d[2] \in Int
          BY <2>1
        <5>2. ASSUME move[c] = move[d]
              PROVE  c[1] = d[1] /\ c[2] = d[2]
          <6>1. c[1] - x0 = d[1] - x0 /\ c[2] - y0 = d[2] - y0
            BY <5>2
          <6> QED
            BY <2>4, <5>1, <6>1
        <5> QED
          BY <2>1, <5>2
      <4>3. \A d \in moved : \E c \in cells : move[c] = d
        OBVIOUS
      <4> HIDE DEF move, moved
      <4> QED
        BY <4>1, <4>2, <4>3 DEF Bijection, Injection, Surjection, IsInjective
    <3> HIDE DEF move, moved
    <3>3. ExistsBijection(cells, moved)
      BY <3>2 DEF ExistsBijection
    <3> QED
      BY <3>1, <3>3, FS_Bijection
  <2> QED
    BY <2>6, <2>9, <2>10, <2>11
<1> QED
  BY <1>2, <1>3

LEMMA RoundTrip ==
  ASSUME NEW text, text.body \in Seq(Tokens)
  PROVE  /\ Bounded(ParseRLE(text).cells)
         /\ ParseRLE(ToRLE(ParseRLE(text))).cells = Normalize(ParseRLE(text).cells)
         /\ ParseRLE(ToRLE(ParseRLE(text))).rule = ParseRLE(text).rule
<1> DEFINE p == ParseRLE(text)
           N == Normalize(p.cells)
<1>1. Bounded(p.cells) /\ p.rule # NoRule
  BY ReadBounded, RuleAssumption DEF ParseRLE
<1> HIDE DEF p
<1>2. Bounded(N)
  BY <1>1, NormalForm
<1>3. PICK n \in Nat : N \subseteq (0 .. n) \X (0 .. n)
  BY <1>2 DEF Bounded
<1> HIDE DEF N
<1>4. Read(EmitRows(N)).cells = N
  BY <1>3, ReadRows
<1>5. ParseRLE(ToRLE(p)) = [cells |-> N, rule |-> p.rule]
  BY <1>1, <1>4 DEF ToRLE, ParseRLE, N
<1> QED
  BY <1>1, <1>5 DEF p, N

---------------------------------------------------------------------------
(* The invariants.                                                         *)

Parsed == {ParseRLE(text) : text \in Texts}

Verifications ==
  {VerificationRecord(code, now, pattern, spec) :
     code \in Installs, now \in Installs, pattern \in Parsed, spec \in Specs}

Novelties ==
  {NoveltyResult(lifelib, now, pattern) : lifelib \in BOOLEAN, now \in Installs, pattern \in Parsed}

Recipes == {Recipe(now, spec) : now \in Installs, spec \in Specs}

Discoveries ==
  [pattern : Parsed, spec : Specs, verification : Verifications, novelty : Novelties,
   recipe : Recipes, code : Installs, seen : SUBSET Installs]

Artifacts ==
  [torn : {FALSE}, spec : Specs, rle : {ToRLE(pattern) : pattern \in Parsed},
   verification : Verifications, novelty : Novelties, recipe : Recipes, code : Installs,
   seen : SUBSET Installs]

Phases == {"verify", "novelty", "gate", "report", "fill report", "files", "fill file"}

Processes ==
  [pc : Phases, spec : Specs, todo : Seq(Parsed), code : Installs, lifelib : BOOLEAN,
   verification : Verifications \cup {Nothing}, novelty : Novelties \cup {Nothing},
   found : Seq(Discoveries), seen : SUBSET Installs]

\* A process between its steps: what it judges or writes is there.
Shaped ==
  {r \in Processes :
     /\ r.pc \in {"novelty", "gate"} => r.todo # << >> /\ r.verification \in Verifications
     /\ r.pc = "gate" => r.novelty \in Novelties
     /\ r.pc = "fill file" => r.found # << >>}

\* What is installed, the campaign file, the process and the files are what they should be.
TypeInv ==
  /\ installed \in Installs
  /\ campaign \in [spec : Specs, seeds : SeedLists]
  /\ run \in {Idle} \cup Shaped
  /\ report \in [Specs -> {Nothing, Torn} \cup [discoveries : Nat]]
  /\ \A id \in DOMAIN files : files[id] \in {Torn} \cup Artifacts
  /\ written \subseteq [spec : Specs, pattern : Parsed]

\* A discovery of a run that met one installation is what that installation says of p.
Vouched(d, p) ==
  \A x \in Installs : d.seen = {x} =>
    /\ d.verification = VerificationRecord(x, x, p, d.spec)
    /\ d.novelty = NoveltyResult(x.lifelib, x, p)
    /\ d.recipe = Recipe(x, d.spec)

\* The run has met what is installed and what it imported; a verdict it holds is about its
\* next candidate.
JudgedInv ==
  Running =>
    /\ installed \in run.seen /\ run.code \in run.seen
    /\ run.lifelib => \E x \in run.seen : x.lifelib
    /\ run.pc \in {"novelty", "gate"} =>
         \A x \in Installs : run.seen = {x} =>
           run.verification = VerificationRecord(x, x, Head(run.todo), run.spec)
    /\ run.pc = "gate" =>
         \A x \in Installs : run.seen = {x} => run.novelty = NoveltyResult(x.lifelib, x, Head(run.todo))

\* What the run found was accepted, under its own spec.
FoundInv ==
  Running =>
    \A i \in 1 .. Len(run.found) :
      LET d == run.found[i]
      IN  d.spec = run.spec /\ Accepts(d.verification, d.novelty) /\ Vouched(d, d.pattern)

\* What a file holds was accepted, and stands under its own name.
FilesInv ==
  \A id \in DOMAIN files : files[id] # Torn =>
    LET a == files[id]
    IN  /\ id = <<a.spec.id, a.rle>>
        /\ Accepts(a.verification, a.novelty)
        /\ \E p \in Parsed : a.rle = ToRLE(p) /\ Vouched(a, p)

\* The file of a written discovery is the one that has its name.
WrittenInv ==
  \A d \in written :
    LET id == DiscoveryId(d.spec, d.pattern)
    IN  id \in DOMAIN files /\ (Holds(id, d) \/ AtWork(id) \/ id \in interrupted)

Inv == TypeInv /\ JudgedInv /\ FoundInv /\ FilesInv /\ WrittenInv

LEMMA Verdicts ==
  ASSUME NEW code \in Installs, NEW now \in Installs, NEW p \in Parsed, NEW s \in Specs,
         NEW lifelib \in BOOLEAN
  PROVE  /\ VerificationRecord(code, now, p, s) \in Verifications
         /\ NoveltyResult(lifelib, now, p) \in Novelties
         /\ Recipe(now, s) \in Recipes
BY DEF Verifications, Novelties, Recipes

LEMMA AtWorkOrIdle ==
  ASSUME TypeInv
  PROVE  /\ Running <=> run # Idle
         /\ Running <=> run \in Shaped
<1>1. Idle \notin Shaped /\ Idle.pc = "idle"
  <2>1. \A r \in Shaped : r.pc # "idle"
    BY DEF Shaped, Processes, Phases
  <2> QED
    BY <2>1 DEF Idle
<1>2. run \in Shaped => run.pc # "idle"
  BY DEF Shaped, Processes, Phases
<1> QED
  BY <1>1, <1>2 DEF TypeInv, Running

LEMMA HeadAndTail ==
  ASSUME NEW D, NEW s \in Seq(D), s # << >>
  PROVE  /\ Head(s) \in D /\ Head(s) = s[1] /\ Len(s) \in Nat \ {0} /\ 1 \in 1 .. Len(s)
         /\ Tail(s) \in Seq(D) /\ Len(Tail(s)) = Len(s) - 1
         /\ \A i \in 1 .. Len(Tail(s)) : Tail(s)[i] = s[i + 1]
OBVIOUS

LEMMA TypeInit == DirectoryInit => TypeInv
<1> SUFFICES ASSUME DirectoryInit
             PROVE  TypeInv
  OBVIOUS
<1> QED
  BY DEF DirectoryInit, TypeInv, Running, Idle

LEMMA DiscoveryType ==
  ASSUME TypeInv, run.pc = "gate"
  PROVE  Head(run.todo) \in Parsed /\ Discovery \in Discoveries
<1>1. /\ run \in Shaped /\ run.todo # << >> /\ run.todo \in Seq(Parsed)
      /\ run.verification \in Verifications /\ run.novelty \in Novelties
  BY AtWorkOrIdle DEF Running, Shaped, Processes
<1>2. Head(run.todo) \in Parsed
  BY <1>1, HeadAndTail
<1>3. installed \in Installs /\ run.spec \in Specs /\ run.code \in Installs /\ run.seen \in SUBSET Installs
  BY <1>1 DEF TypeInv, Shaped, Processes
<1>4. Recipe(installed, run.spec) \in Recipes
  BY <1>3 DEF Recipes
<1> QED
  BY <1>1, <1>2, <1>3, <1>4 DEF Discovery, Discoveries

LEMMA TypeStep == TypeInv /\ [DirectoryNext]_directoryVars => TypeInv'
<1> SUFFICES ASSUME TypeInv, [DirectoryNext]_directoryVars
             PROVE  TypeInv'
  OBVIOUS
<1> DEFINE Files == \A id \in DOMAIN files : files[id] \in {Torn} \cup Artifacts
           Reports == report \in [Specs -> {Nothing, Torn} \cup [discoveries : Nat]]
           Written == written \subseteq [spec : Specs, pattern : Parsed]
<1>1. ASSUME run' \in {Idle} \cup Shaped, installed' = installed, campaign' = campaign, disk' = disk
      PROVE  TypeInv'
  BY <1>1 DEF TypeInv, disk
<1>2. CASE Start
  <2>1. campaign.spec \in Specs /\ campaign.seeds \in Seq(Texts) /\ installed \in Installs
    BY RunAssumption DEF TypeInv
  <2>2. [i \in DOMAIN campaign.seeds |-> ParseRLE(campaign.seeds[i])] \in Seq(Parsed)
    <3>1. \A i \in DOMAIN campaign.seeds : ParseRLE(campaign.seeds[i]) \in Parsed
      BY <2>1 DEF Parsed
    <3> QED
      BY <2>1, <3>1
  <2>3. << >> \in Seq(Discoveries)
    OBVIOUS
  <2>4. run' \in Processes /\ run'.pc \in {"verify", "report"}
    BY <1>2, <2>1, <2>2, <2>3 DEF Start, Processes, Phases
  <2> QED
    BY <1>1, <1>2, <2>4 DEF Start, Shaped
<1>3. CASE Verify
  <2>1. run \in Processes /\ run.todo \in Seq(Parsed) /\ run.todo # << >> /\ installed \in Installs
    BY <1>3, AtWorkOrIdle DEF Verify, Running, Shaped, Processes, TypeInv
  <2>2. Head(run.todo) \in Parsed
    BY <2>1, HeadAndTail
  <2>3. VerificationRecord(run.code, installed, Head(run.todo), run.spec) \in Verifications
    BY <2>1, <2>2 DEF Verifications, Processes
  <2>4. run' \in Shaped
    BY <1>3, <2>1, <2>3 DEF Verify, Shaped, Processes, Phases
  <2> QED
    BY <1>1, <1>3, <2>4 DEF Verify
<1>4. CASE Novelty
  <2>1. /\ run \in Processes /\ run.todo \in Seq(Parsed) /\ run.todo # << >> /\ installed \in Installs
        /\ run.verification \in Verifications
    BY <1>4, AtWorkOrIdle DEF Novelty, Running, Shaped, Processes, TypeInv
  <2>2. Head(run.todo) \in Parsed
    BY <2>1, HeadAndTail
  <2>3. PICK lifelib \in BOOLEAN :
          run' = [run EXCEPT !.pc = "gate", !.lifelib = lifelib,
                             !.novelty = NoveltyResult(lifelib, installed, Head(run.todo))]
    BY <1>4 DEF Novelty
  <2>4. NoveltyResult(lifelib, installed, Head(run.todo)) \in Novelties
    BY <2>1, <2>2 DEF Novelties
  <2>5. run' \in Shaped
    BY <2>1, <2>3, <2>4 DEF Shaped, Processes, Phases
  <2> QED
    BY <1>1, <1>4, <2>5 DEF Novelty
<1>5. CASE Gate
  <2>1. run \in Processes /\ run.todo \in Seq(Parsed) /\ run.todo # << >> /\ run.found \in Seq(Discoveries)
    BY <1>5, AtWorkOrIdle DEF Gate, Running, Shaped, Processes
  <2>2. Discovery \in Discoveries
    BY <1>5, DiscoveryType DEF Gate
  <2>3. Append(run.found, Discovery) \in Seq(Discoveries)
    BY <2>1, <2>2
  <2>4. Tail(run.todo) \in Seq(Parsed)
    BY <2>1, HeadAndTail
  <2>5. run' \in Processes /\ run'.pc = "verify"
    BY <1>5, <2>1, <2>3, <2>4 DEF Gate, Processes, Phases
  <2> QED
    BY <1>1, <1>5, <2>5 DEF Gate, Shaped
<1>6. CASE CampaignEnds
  <2>1. run \in Processes
    BY <1>6, AtWorkOrIdle DEF CampaignEnds, Running, Shaped
  <2>3. << >> \in Seq(Parsed)
    OBVIOUS
  <2>2. run' \in Processes /\ run'.pc = "report"
    BY <1>6, <2>1, <2>3 DEF CampaignEnds, Processes, Phases
  <2> QED
    BY <1>1, <1>6, <2>2 DEF CampaignEnds, Shaped
<1>7. CASE TruncateReport
  <2>1. run \in Processes
    BY <1>7, AtWorkOrIdle DEF TruncateReport, Running, Shaped
  <2>2. run' \in Processes /\ run'.pc = "fill report"
    BY <1>7, <2>1 DEF TruncateReport, Processes, Phases
  <2>3. Reports'
    BY <1>7 DEF TruncateReport, TypeInv
  <2> QED
    BY <1>7, <2>2, <2>3 DEF TruncateReport, TypeInv, Shaped
<1>8. CASE FillReport
  <2>1. run \in Processes /\ run.found \in Seq(Discoveries)
    BY <1>8, AtWorkOrIdle DEF FillReport, Running, Shaped, Processes
  <2>2. run' \in Processes /\ run'.pc = "files"
    BY <1>8, <2>1 DEF FillReport, Processes, Phases
  <2>3. Len(run.found) \in Nat
    BY <2>1
  <2>4. Reports'
    BY <1>8, <2>3 DEF FillReport, TypeInv
  <2> QED
    BY <1>8, <2>2, <2>4 DEF FillReport, TypeInv, Shaped
<1>9. CASE TruncateFile
  <2>1. run \in Processes /\ run.found # << >>
    BY <1>9, AtWorkOrIdle DEF TruncateFile, Running, Shaped
  <2>2. run' \in Shaped
    BY <1>9, <2>1 DEF TruncateFile, Shaped, Processes, Phases
  <2>3. Files'
    BY <1>9 DEF TruncateFile, FilesWith, TypeInv
  <2> QED
    BY <1>9, <2>2, <2>3 DEF TruncateFile, TypeInv
<1>10. CASE FillFile
  <2>1. run \in Processes /\ run.found \in Seq(Discoveries) /\ run.found # << >> /\ run.spec \in Specs
    BY <1>10, AtWorkOrIdle DEF FillFile, Running, Shaped, Processes
  <2>2. Head(run.found) \in Discoveries /\ Tail(run.found) \in Seq(Discoveries)
    BY <2>1, HeadAndTail
  <2>3. run' \in Processes /\ run'.pc = "files"
    BY <1>10, <2>1, <2>2 DEF FillFile, Processes, Phases
  <2>4. Artifact(Head(run.found)) \in Artifacts /\ Head(run.found).pattern \in Parsed
    BY <2>2 DEF Artifact, Artifacts, Discoveries
  <2>5. Files'
    BY <1>10, <2>4 DEF FillFile, FilesWith, TypeInv
  <2>6. Written'
    <3>1. [spec |-> run.spec, pattern |-> Head(run.found).pattern] \in [spec : Specs, pattern : Parsed]
      BY <1>10, <2>1, <2>4 DEF FillFile
    <3> QED
      BY <1>10, <3>1 DEF FillFile, TypeInv
  <2> QED
    BY <1>10, <2>3, <2>5, <2>6 DEF FillFile, TypeInv, Shaped
<1>11. CASE End
  BY <1>1, <1>11 DEF End
<1>12. CASE Die
  BY <1>12 DEF Die, TypeInv
<1>13. CASE Retarget
  BY <1>13 DEF Retarget, TypeInv, disk
<1>14. CASE Upgrade
  <2>1. installed' \in Installs
    BY <1>14 DEF Upgrade
  <2>2. run' \in {Idle} \cup Shaped
    <3>1. CASE Running
      <4>1. run \in Shaped
        BY <3>1, AtWorkOrIdle
      <4>2. run' = [run EXCEPT !.seen = @ \cup {installed'}]
        BY <1>14, <3>1 DEF Upgrade
      <4>3. run.seen \cup {installed'} \in SUBSET Installs
        BY <2>1, <4>1 DEF Shaped, Processes
      <4> QED
        BY <4>1, <4>2, <4>3 DEF Shaped, Processes
    <3>2. CASE ~Running
      BY <1>14, <3>2 DEF Upgrade, TypeInv
    <3> QED
      BY <3>1, <3>2
  <2> QED
    BY <1>14, <2>1, <2>2 DEF Upgrade, TypeInv, disk
<1>15. CASE UNCHANGED directoryVars
  BY <1>15 DEF directoryVars, TypeInv
<1> QED
  BY <1>2, <1>3, <1>4, <1>5, <1>6, <1>7, <1>8, <1>9, <1>10, <1>11, <1>12, <1>13, <1>14, <1>15
  DEF DirectoryNext

\* Everything has its type, in whatever order runs begin, die and are upgraded.
THEOREM DirectoryTyping == DirectorySpec => []TypeInv
<1> QED
  BY TypeInit, TypeStep, PTL DEF DirectorySpec

---------------------------------------------------------------------------
(* What a run says of its candidates, as of one installation.              *)

LEMMA Stops == End \/ Die => ~Running'
<1> SUFFICES ASSUME End \/ Die
             PROVE  ~Running'
  OBVIOUS
<1>1. run' = Idle
  BY DEF End, Die
<1>2. Idle.pc = "idle"
  BY DEF Idle
<1> QED
  BY <1>1, <1>2 DEF Running

LEMMA JudgedStep == TypeInv /\ JudgedInv /\ [DirectoryNext]_directoryVars => JudgedInv'
<1> SUFFICES ASSUME TypeInv, JudgedInv, [DirectoryNext]_directoryVars, Running'
             PROVE  /\ installed' \in run'.seen /\ run'.code \in run'.seen
                    /\ run'.lifelib => \E x \in run'.seen : x.lifelib
                    /\ run'.pc \in {"novelty", "gate"} =>
                         \A x \in Installs : run'.seen = {x} =>
                           run'.verification = VerificationRecord(x, x, Head(run'.todo), run'.spec)
                    /\ run'.pc = "gate" =>
                         \A x \in Installs : run'.seen = {x} =>
                           run'.novelty = NoveltyResult(x.lifelib, x, Head(run'.todo))
  BY DEF JudgedInv
<1>1. Running => /\ run \in Processes
                 /\ installed \in run.seen /\ run.code \in run.seen
                 /\ run.lifelib => \E x \in run.seen : x.lifelib
  BY AtWorkOrIdle DEF JudgedInv, Shaped
\* Another phase, of which nothing is said.
<1>2. ASSUME Running, installed' = installed, run'.seen = run.seen, run'.code = run.code,
             run'.lifelib = run.lifelib, run'.pc \notin {"novelty", "gate"}
      PROVE  JudgedInv'
  BY <1>1, <1>2 DEF JudgedInv
<1>3. CASE Start
  BY <1>3 DEF Start
<1>4. CASE Verify
  <2>1. Running /\ run \in Processes
    BY <1>1, <1>4 DEF Verify, Running
  <2>2. /\ run'.pc = "novelty" /\ run'.seen = run.seen /\ run'.code = run.code
        /\ run'.lifelib = run.lifelib /\ run'.todo = run.todo /\ run'.spec = run.spec
        /\ run'.verification = VerificationRecord(run.code, installed, Head(run.todo), run.spec)
        /\ installed' = installed
    BY <1>4, <2>1 DEF Verify, Processes
  <2>3. \A x : run.seen = {x} => run.code = x /\ installed = x
    BY <1>1, <2>1
  <2> QED
    BY <1>1, <2>1, <2>2, <2>3
<1>5. CASE Novelty
  <2>1. Running /\ run \in Processes
    BY <1>1, <1>5 DEF Novelty, Running
  <2> DEFINE lifelib == run.lifelib \/ installed.lifelib
  <2>2. /\ run' = [run EXCEPT !.pc = "gate", !.lifelib = lifelib,
                              !.novelty = NoveltyResult(lifelib, installed, Head(run.todo))]
        /\ installed' = installed
    BY <1>5 DEF Novelty
  <2>3. lifelib \in BOOLEAN /\ (lifelib => \E x \in run.seen : x.lifelib)
    BY <1>1, <2>1
  <2>4. ASSUME NEW x \in Installs, run.seen = {x}
        PROVE  installed = x /\ lifelib = x.lifelib
    <3>1. installed = x /\ x.lifelib \in BOOLEAN
      BY <1>1, <2>1, <2>4, RunAssumption
    <3>2. lifelib <=> x.lifelib
      BY <2>3, <2>4, <3>1
    <3> QED
      BY <2>3, <3>1, <3>2
  <2> HIDE DEF lifelib
  <2>5. /\ run'.pc = "gate" /\ run'.seen = run.seen /\ run'.code = run.code
        /\ run'.lifelib = lifelib /\ run'.todo = run.todo /\ run'.spec = run.spec
        /\ run'.verification = run.verification
        /\ run'.novelty = NoveltyResult(lifelib, installed, Head(run.todo))
    BY <2>1, <2>2 DEF Processes
  <2>6. \A x \in Installs : run.seen = {x} =>
          run.verification = VerificationRecord(x, x, Head(run.todo), run.spec)
    BY <1>5, <2>1 DEF JudgedInv, Novelty
  <2> QED
    BY <1>1, <2>1, <2>2, <2>3, <2>4, <2>5, <2>6
<1>6. CASE Gate
  BY <1>1, <1>2, <1>6 DEF Gate, Running, Processes, JudgedInv
<1>7. CASE CampaignEnds
  BY <1>1, <1>2, <1>7 DEF CampaignEnds, Running, Processes, JudgedInv
<1>8. CASE TruncateReport
  BY <1>1, <1>2, <1>8 DEF TruncateReport, Running, Processes, JudgedInv
<1>9. CASE FillReport
  BY <1>1, <1>2, <1>9 DEF FillReport, Running, Processes, JudgedInv
<1>10. CASE TruncateFile
  BY <1>1, <1>2, <1>10 DEF TruncateFile, Running, Processes, JudgedInv
<1>11. CASE FillFile
  BY <1>1, <1>2, <1>11 DEF FillFile, Running, Processes, JudgedInv
<1>12. CASE End \/ Die
  BY <1>12, Stops
<1>13. CASE Retarget
  BY <1>13 DEF Retarget, JudgedInv, Running
<1>14. CASE Upgrade
  <2>1. Running /\ run \in Processes
    BY <1>1, <1>14 DEF Upgrade, Running
  <2>2. /\ run'.pc = run.pc /\ run'.seen = run.seen \cup {installed'} /\ run'.code = run.code
        /\ run'.lifelib = run.lifelib /\ run'.todo = run.todo /\ run'.spec = run.spec
        /\ run'.verification = run.verification /\ run'.novelty = run.novelty
    BY <1>14, <2>1 DEF Upgrade, Processes
  <2>3. \A x : run'.seen = {x} => run.seen = {x}
    BY <1>1, <2>1, <2>2
  <2> QED
    BY <1>1, <2>1, <2>2, <2>3 DEF JudgedInv
<1>15. CASE UNCHANGED directoryVars
  BY <1>15 DEF directoryVars, JudgedInv, Running
<1> QED
  BY <1>3, <1>4, <1>5, <1>6, <1>7, <1>8, <1>9, <1>10, <1>11, <1>12, <1>13, <1>14, <1>15 DEF DirectoryNext

LEMMA FoundStep == TypeInv /\ JudgedInv /\ FoundInv /\ [DirectoryNext]_directoryVars => FoundInv'
<1> DEFINE Good(r) == \A i \in 1 .. Len(r.found) :
                        LET d == r.found[i]
                        IN  /\ d.spec = r.spec /\ Accepts(d.verification, d.novelty)
                            /\ Vouched(d, d.pattern)
<1> SUFFICES ASSUME TypeInv, JudgedInv, FoundInv, [DirectoryNext]_directoryVars, Running'
             PROVE  Good(run')
  BY DEF FoundInv
<1>1. Running => run \in Processes /\ Good(run) /\ run.found \in Seq(Discoveries)
  BY AtWorkOrIdle DEF FoundInv, Shaped, Processes
<1>2. ASSUME Running, run'.found = run.found, run'.spec = run.spec
      PROVE  Good(run')
  BY <1>1, <1>2
<1>3. CASE Start
  <2>1. run'.found = << >>
    BY <1>3 DEF Start
  <2> QED
    BY <2>1
<1>4. CASE Verify \/ Novelty \/ CampaignEnds \/ TruncateReport \/ FillReport \/ TruncateFile
  <2>1. Running
    BY <1>4 DEF Verify, Novelty, CampaignEnds, TruncateReport, FillReport, TruncateFile, Running
  <2>2. run'.found = run.found /\ run'.spec = run.spec
    BY <1>1, <1>4, <2>1
    DEF Verify, Novelty, CampaignEnds, TruncateReport, FillReport, TruncateFile, Processes
  <2> HIDE DEF Good
  <2> QED
    BY <1>2, <2>1, <2>2
<1>5. CASE Gate
  <2>1. Running
    BY <1>5 DEF Gate, Running
  <2>2. /\ run'.found = IF Accepts(run.verification, run.novelty)
                        THEN Append(run.found, Discovery) ELSE run.found
        /\ run'.spec = run.spec
    BY <1>1, <1>5, <2>1 DEF Gate, Processes
  <2>3. CASE Accepts(run.verification, run.novelty)
    <3>1. /\ Discovery.spec = run.spec /\ Discovery.verification = run.verification
          /\ Discovery.novelty = run.novelty /\ Discovery.pattern = Head(run.todo)
          /\ Discovery.recipe = Recipe(installed, run.spec) /\ Discovery.seen = run.seen
      BY DEF Discovery
    <3>2. Vouched(Discovery, Discovery.pattern)
      <4> SUFFICES ASSUME NEW x \in Installs, run.seen = {x}
                   PROVE  /\ run.verification = VerificationRecord(x, x, Head(run.todo), run.spec)
                          /\ run.novelty = NoveltyResult(x.lifelib, x, Head(run.todo))
                          /\ Recipe(installed, run.spec) = Recipe(x, run.spec)
        BY <3>1 DEF Vouched
      <4>1. installed = x
        BY <2>1 DEF JudgedInv
      <4> QED
        BY <1>5, <2>1, <4>1 DEF JudgedInv, Gate
    <3> DEFINE n == Len(run.found)
               more == Append(run.found, Discovery)
    <3>3. /\ n \in Nat /\ Len(more) = n + 1 /\ more[n + 1] = Discovery
          /\ \A i \in 1 .. n : more[i] = run.found[i]
      BY <1>1, <2>1
    <3>4. \A i \in 1 .. n + 1 : i \in 1 .. n \/ i = n + 1
      BY <3>3
    <3>5. run'.found = more
      BY <2>2, <2>3
    <3>6. \A i \in 1 .. n : /\ run.found[i].spec = run.spec
                            /\ Accepts(run.found[i].verification, run.found[i].novelty)
                            /\ Vouched(run.found[i], run.found[i].pattern)
      BY <1>1, <2>1
    <3> HIDE DEF n, more
    <3> QED
      BY <2>2, <2>3, <3>1, <3>2, <3>3, <3>4, <3>5, <3>6
  <2>4. CASE ~Accepts(run.verification, run.novelty)
    <3> HIDE DEF Good
    <3> QED
      BY <1>2, <2>1, <2>2, <2>4
  <2> QED
    BY <2>3, <2>4
<1>6. CASE FillFile
  <2>1. Running /\ run \in Shaped
    BY <1>6, AtWorkOrIdle DEF FillFile, Running
  <2>2. run'.found = Tail(run.found) /\ run'.spec = run.spec /\ run.found # << >>
    BY <1>6, <2>1 DEF FillFile, Shaped, Processes
  <2>3. /\ Len(Tail(run.found)) = Len(run.found) - 1 /\ Len(run.found) \in Nat
        /\ \A i \in 1 .. Len(Tail(run.found)) : Tail(run.found)[i] = run.found[i + 1]
    BY <1>1, <2>1, <2>2, HeadAndTail
  <2> DEFINE n == Len(run.found)
             rest == Tail(run.found)
  <2>4. \A i \in 1 .. Len(rest) : rest[i] = run.found[i + 1] /\ i + 1 \in 1 .. n
    BY <2>3
  <2>5. \A i \in 1 .. n : /\ run.found[i].spec = run.spec
                          /\ Accepts(run.found[i].verification, run.found[i].novelty)
                          /\ Vouched(run.found[i], run.found[i].pattern)
    BY <1>1, <2>1
  <2> HIDE DEF n, rest
  <2>6. \A i \in 1 .. Len(rest) : /\ rest[i].spec = run.spec
                                  /\ Accepts(rest[i].verification, rest[i].novelty)
                                  /\ Vouched(rest[i], rest[i].pattern)
    BY <2>4, <2>5
  <2> QED
    BY <2>2, <2>6 DEF rest
<1>7. CASE End \/ Die
  BY <1>7, Stops
<1>8. CASE Retarget
  BY <1>1, <1>8 DEF Retarget, Running
<1>9. CASE Upgrade
  <2>1. Running
    BY <1>9 DEF Upgrade, Running
  <2>2. run'.found = run.found /\ run'.spec = run.spec
    BY <1>1, <1>9, <2>1 DEF Upgrade, Processes
  <2> HIDE DEF Good
  <2> QED
    BY <1>2, <2>1, <2>2
<1>10. CASE UNCHANGED directoryVars
  BY <1>1, <1>10 DEF directoryVars, Running
<1> QED
  BY <1>3, <1>4, <1>5, <1>6, <1>7, <1>8, <1>9, <1>10 DEF DirectoryNext

---------------------------------------------------------------------------
(* What the files hold.                                                    *)

\* The discovery that is being written, and the name of its file.
LEMMA BeingWritten ==
  ASSUME TypeInv, FoundInv, run.pc \in {"files", "fill file"}, run.found # << >>
  PROVE  LET d == Head(run.found)
         IN  /\ d \in Discoveries /\ d.spec = run.spec /\ run.spec \in Specs
             /\ Accepts(d.verification, d.novelty) /\ Vouched(d, d.pattern)
             /\ Writing = <<d.spec.id, ToRLE(d.pattern)>>
             /\ Writing = DiscoveryId(d.spec, d.pattern)
             /\ run \in Shaped /\ run \in Processes
             /\ Tail(run.found) \in Seq(Discoveries)
<1>1. Running /\ run \in Shaped
  BY AtWorkOrIdle DEF Running
<1>2. run \in Processes /\ run.found \in Seq(Discoveries) /\ run.spec \in Specs
  BY <1>1 DEF Shaped, Processes
<1>3. /\ Head(run.found) \in Discoveries /\ Head(run.found) = run.found[1]
      /\ Len(run.found) \in Nat \ {0} /\ Tail(run.found) \in Seq(Discoveries)
  BY <1>2, HeadAndTail
<1>4. 1 \in 1 .. Len(run.found)
  BY <1>2, HeadAndTail
<1> DEFINE d == Head(run.found)
<1>5. d.spec = run.spec /\ Accepts(d.verification, d.novelty) /\ Vouched(d, d.pattern)
  <2>1. \A i \in 1 .. Len(run.found) :
          /\ run.found[i].spec = run.spec
          /\ Accepts(run.found[i].verification, run.found[i].novelty)
          /\ Vouched(run.found[i], run.found[i].pattern)
    BY <1>1 DEF FoundInv
  <2>2. d = run.found[1]
    BY <1>3
  <2> HIDE DEF d
  <2> QED
    BY <1>4, <2>1, <2>2
<1>6. Writing = <<d.spec.id, ToRLE(d.pattern)>> /\ Writing = DiscoveryId(d.spec, d.pattern)
  BY DEF Writing, DiscoveryId
<1> QED
  BY <1>1, <1>2, <1>3, <1>5, <1>6

LEMMA FilesStep == TypeInv /\ FoundInv /\ FilesInv /\ [DirectoryNext]_directoryVars => FilesInv'
<1> SUFFICES ASSUME TypeInv, FoundInv, FilesInv, [DirectoryNext]_directoryVars
             PROVE  FilesInv'
  OBVIOUS
<1>1. CASE TruncateFile
  BY <1>1 DEF TruncateFile, FilesWith, FilesInv
<1>2. CASE FillFile
  <2> DEFINE d == Head(run.found)
             a == Artifact(d)
  <2>1. run.found # << >>
    BY <1>2, AtWorkOrIdle DEF FillFile, Running, Shaped
  <2>2. /\ d \in Discoveries /\ Accepts(d.verification, d.novelty) /\ Vouched(d, d.pattern)
        /\ Writing = <<d.spec.id, ToRLE(d.pattern)>>
    BY <1>2, <2>1, BeingWritten DEF FillFile
  <2>3. /\ a.spec = d.spec /\ a.rle = ToRLE(d.pattern) /\ a.verification = d.verification
        /\ a.novelty = d.novelty /\ a.recipe = d.recipe /\ a.seen = d.seen
    BY DEF Artifact
  <2>4. d.pattern \in Parsed
    BY <2>2 DEF Discoveries
  <2>5. Vouched(a, d.pattern)
    BY <2>2, <2>3 DEF Vouched
  <2>6. files' = FilesWith(Writing, a)
    BY <1>2 DEF FillFile
  <2> HIDE DEF d, a
  <2>7. /\ Writing = <<a.spec.id, a.rle>> /\ Accepts(a.verification, a.novelty)
        /\ \E p \in Parsed : a.rle = ToRLE(p) /\ Vouched(a, p)
    BY <2>2, <2>3, <2>4, <2>5
  <2> QED
    BY <2>6, <2>7 DEF FilesWith, FilesInv
<1>3. CASE UNCHANGED files
  BY <1>3 DEF FilesInv
<1> QED
  BY <1>1, <1>2, <1>3
  DEF DirectoryNext, Start, Verify, Novelty, Gate, CampaignEnds, TruncateReport, FillReport, End, Die,
      Retarget, Upgrade, directoryVars, disk

LEMMA WrittenStep == TypeInv /\ FoundInv /\ FilesInv /\ WrittenInv /\ [DirectoryNext]_directoryVars => WrittenInv'
<1> SUFFICES ASSUME TypeInv, FoundInv, FilesInv, WrittenInv, [DirectoryNext]_directoryVars,
                    NEW d \in written'
             PROVE  LET id == DiscoveryId(d.spec, d.pattern)
                    IN  id \in DOMAIN files' /\ (Holds(id, d)' \/ AtWork(id)' \/ id \in interrupted')
  BY DEF WrittenInv
<1> DEFINE id == DiscoveryId(d.spec, d.pattern)
<1>1. d \in written => id \in DOMAIN files /\ (Holds(id, d) \/ AtWork(id) \/ id \in interrupted)
  BY DEF WrittenInv
<1>2. CASE TruncateFile
  <2>1. run.pc = "files" /\ run.found # << >> /\ run \in Shaped
    BY <1>2, AtWorkOrIdle DEF TruncateFile, Running
  <2>2. /\ files' = FilesWith(Writing, Torn) /\ d \in written /\ interrupted' = interrupted
        /\ run'.pc = "fill file" /\ run'.found = run.found
    BY <1>2, <2>1 DEF TruncateFile, Shaped, Processes
  <2>3. CASE id = Writing
    BY <2>2, <2>3 DEF FilesWith, AtWork, Writing
  <2>4. CASE id # Writing
    <3>1. id \in DOMAIN files /\ (Holds(id, d) \/ id \in interrupted)
      BY <1>1, <2>1, <2>2 DEF AtWork
    <3> QED
      BY <2>2, <2>4, <3>1 DEF FilesWith, Holds
  <2> QED
    BY <2>3, <2>4
<1>3. CASE FillFile
  <2> DEFINE f == Head(run.found)
             a == Artifact(f)
  <2>1. run.pc = "fill file" /\ run.found # << >>
    BY <1>3, AtWorkOrIdle DEF FillFile, Running, Shaped
  <2>2. /\ f \in Discoveries /\ f.spec = run.spec /\ Writing = DiscoveryId(f.spec, f.pattern)
    BY <2>1, BeingWritten
  <2>3. /\ a.torn = FALSE /\ a.spec = f.spec /\ a.rle = ToRLE(f.pattern)
        /\ files' = FilesWith(Writing, a)
        /\ written' = written \cup {[spec |-> run.spec, pattern |-> f.pattern]}
        /\ interrupted' = interrupted \ {Writing}
    BY <1>3 DEF FillFile, Artifact
  <2>4. d \in written \/ (d.spec = f.spec /\ d.pattern = f.pattern)
    BY <2>2, <2>3
  <2>5. f.spec \in Specs /\ d.spec \in Specs
    BY <2>2, <2>4 DEF TypeInv, Discoveries
  <2> HIDE DEF f, a
  <2>6. CASE id = Writing
    <3>1. d.spec.id = f.spec.id /\ ToRLE(d.pattern) = ToRLE(f.pattern)
      BY <2>2, <2>6 DEF DiscoveryId
    <3>2. d.spec = f.spec
      BY <2>5, <3>1, RunAssumption
    <3> QED
      BY <2>3, <2>6, <3>1, <3>2 DEF FilesWith, Holds
  <2>7. CASE id # Writing
    <3>1. d \in written
      BY <2>2, <2>4, <2>7
    <3>2. id \in DOMAIN files /\ (Holds(id, d) \/ id \in interrupted)
      BY <1>1, <2>7, <3>1 DEF AtWork
    <3> QED
      BY <2>3, <2>7, <3>2 DEF FilesWith, Holds
  <2> QED
    BY <2>6, <2>7
<1>4. CASE Die
  <2>1. files' = files /\ written' = written
        /\ interrupted' = interrupted \cup IF run.pc = "fill file" THEN {Writing} ELSE {}
    BY <1>4 DEF Die
  <2> QED
    BY <1>1, <2>1 DEF Holds, AtWork
\* The process is not at a file, or stays there.
<1>5. ASSUME files' = files, written' = written, interrupted' = interrupted,
             run.pc = "fill file" => run'.pc = "fill file" /\ run'.found = run.found
      PROVE  id \in DOMAIN files' /\ (Holds(id, d)' \/ AtWork(id)' \/ id \in interrupted')
  BY <1>1, <1>5 DEF Holds, AtWork, Writing
<1>6. CASE Upgrade
  <2>1. run.pc = "fill file" => run'.pc = "fill file" /\ run'.found = run.found
    <3> SUFFICES ASSUME run.pc = "fill file"
                 PROVE  run'.pc = "fill file" /\ run'.found = run.found
      OBVIOUS
    <3>1. Running /\ run \in Shaped
      BY AtWorkOrIdle DEF Running
    <3> QED
      BY <1>6, <3>1 DEF Upgrade, Shaped, Processes
  <2> QED
    BY <1>5, <1>6, <2>1 DEF Upgrade, disk
<1>7. CASE Retarget \/ UNCHANGED directoryVars
  BY <1>5, <1>7 DEF Retarget, directoryVars, disk
<1>8. CASE Start \/ Verify \/ Novelty \/ Gate \/ CampaignEnds \/ TruncateReport \/ FillReport \/ End
  BY <1>5, <1>8 DEF Start, Verify, Novelty, Gate, CampaignEnds, TruncateReport, FillReport, End,
                    Running, disk
<1> QED
  BY <1>2, <1>3, <1>4, <1>6, <1>7, <1>8 DEF DirectoryNext

---------------------------------------------------------------------------
(* The theorems.                                                           *)

\* The five invariants together are inductive.
THEOREM Invariants == DirectorySpec => []Inv
<1>1. DirectoryInit => Inv
  BY TypeInit DEF DirectoryInit, Inv, JudgedInv, FoundInv, FilesInv, WrittenInv, Running, Idle
<1>2. Inv /\ [DirectoryNext]_directoryVars => Inv'
  BY TypeStep, JudgedStep, FoundStep, FilesStep, WrittenStep DEF Inv
<1> QED
  BY <1>1, <1>2, PTL DEF DirectorySpec

\* What a file that is not torn holds.
LEMMA CompleteIs ==
  ASSUME TypeInv, NEW a \in Complete
  PROVE  \E id \in DOMAIN files : a = files[id] /\ files[id] # Torn /\ a \in Artifacts /\ ~a.torn
<1>1. PICK id \in DOMAIN files : a = files[id] /\ ~files[id].torn
  BY DEF Complete
<1>2. files[id] # Torn
  BY <1>1 DEF Torn
<1> QED
  BY <1>1, <1>2 DEF TypeInv

\* An OK of reproduce_discovery is never said of what today's code would not accept: the
\* records it compares hold the verdicts, and only accepted objects have a file.
THEOREM OkEarned == DirectorySpec => []OkIsEarned
<1>1. Inv => OkIsEarned
  <2> SUFFICES ASSUME Inv, NEW a \in Reproduced
               PROVE  LET pattern == ParseRLE(a.rle)
                      IN  Accepts(VerificationRecord(installed, installed, pattern, a.spec),
                                  NoveltyResult(installed.lifelib, installed, pattern))
    BY DEF OkIsEarned
  <2>1. a \in Complete /\ Matches(a, installed)
    BY DEF Reproduced
  <2>2. PICK id \in DOMAIN files : a = files[id] /\ files[id] # Torn
    BY <2>1, CompleteIs DEF Inv
  <2>3. Accepts(a.verification, a.novelty)
    BY <2>2 DEF Inv, FilesInv
  <2> QED
    BY <2>1, <2>3 DEF Matches
<1> QED
  BY <1>1, Invariants, PTL

\* What a record says of a pattern it says of the pattern that comes back from its RLE.
LEMMA SameRecords ==
  ASSUME NEW p \in Parsed, NEW s \in Specs, NEW x \in Installs
  PROVE  LET q == ParseRLE(ToRLE(p))
         IN  /\ VerificationRecord(x, x, q, s) = VerificationRecord(x, x, p, s)
             /\ NoveltyResult(x.lifelib, x, q) = NoveltyResult(x.lifelib, x, p)
<1>1. PICK text \in Texts : p = ParseRLE(text)
  BY DEF Parsed
<1>2. text.body \in Seq(Tokens)
  BY RunAssumption
<1> DEFINE q == ParseRLE(ToRLE(p))
<1>3. Bounded(p.cells) /\ q.cells = Normalize(p.cells) /\ q.rule = p.rule
  BY <1>1, <1>2, RoundTrip
<1> HIDE DEF q
<1>4. Normalize(q.cells) = Normalize(p.cells) /\ Cardinality(q.cells) = Cardinality(p.cells)
  BY <1>3, NormalForm
<1> QED
  BY <1>3, <1>4 DEF VerificationRecord, NoveltyResult, q

\* The same installation always reproduces what it found: whatever the RLE of the seeds,
\* the pattern that is read back is judged as the one that was written.
THEOREM MismatchCaused == DirectorySpec => []MismatchHasCause
<1>1. Inv => MismatchHasCause
  <2> SUFFICES ASSUME Inv, NEW a \in Complete, a.seen = {installed}
               PROVE  Matches(a, installed)
    BY DEF MismatchHasCause, Reproduced
  <2>1. PICK id \in DOMAIN files : a = files[id] /\ files[id] # Torn /\ a \in Artifacts
    BY CompleteIs DEF Inv
  <2>2. PICK p \in Parsed : a.rle = ToRLE(p) /\ Vouched(a, p)
    BY <2>1 DEF Inv, FilesInv
  <2>3. installed \in Installs /\ a.spec \in Specs
    BY <2>1 DEF Inv, TypeInv, Artifacts
  <2>4. /\ a.verification = VerificationRecord(installed, installed, p, a.spec)
        /\ a.novelty = NoveltyResult(installed.lifelib, installed, p)
        /\ a.recipe = Recipe(installed, a.spec)
    BY <2>2, <2>3 DEF Vouched
  <2> QED
    BY <2>2, <2>3, <2>4, SameRecords DEF Matches
<1> QED
  BY <1>1, Invariants, PTL

\* Whatever dies and whatever is written later, a discovery keeps its file: two of them
\* share one only if they are the same pattern under the same spec.
THEOREM WrittenStay == DirectorySpec => []WrittenStays
<1>1. Inv => WrittenStays
  BY DEF Inv, WrittenInv, WrittenStays
<1> QED
  BY <1>1, Invariants, PTL

---------------------------------------------------------------------------
(* Resume: for any number of processes, keys, values and faults, and any   *)
(* idempotent JSON round trip.                                             *)

\* What the two tables hold, variable by variable.
LEMMA TablesTyped ==
  TypeOK => /\ checkpoint \in [Keys -> Values \cup {None}]
            /\ row \in [AppendKeys -> Values \cup {None}]
            /\ Committed \in Contents
            /\ draft \in Contents
            /\ draft.checkpoint \in [Keys -> Values \cup {None}]
            /\ draft.row \in [AppendKeys -> Values \cup {None}]
<1> SUFFICES ASSUME TypeOK
             PROVE  /\ checkpoint \in [Keys -> Values \cup {None}]
                    /\ row \in [AppendKeys -> Values \cup {None}]
                    /\ Committed \in Contents
                    /\ draft \in Contents
                    /\ draft.checkpoint \in [Keys -> Values \cup {None}]
                    /\ draft.row \in [AppendKeys -> Values \cup {None}]
  OBVIOUS
<1>1. Committed \in Contents /\ draft \in Contents
  BY DEF TypeOK
<1>2. Committed.checkpoint \in [Keys -> Values \cup {None}] /\ Committed.row \in [AppendKeys -> Values \cup {None}]
  BY <1>1 DEF Contents
<1>3. QED  BY <1>1, <1>2 DEF Contents, Committed

LEMMA SeesTyped ==
  ASSUME TypeOK, NEW w \in Workers
  PROVE  Sees(w) \in Contents
BY TablesTyped DEF Sees

\* What each operation of a connection makes of the tables stays in their type.
LEMMA PublishTyped ==
  ASSUME NEW c \in Contents, Publish(c)
  PROVE  {Committed, draft}' \subseteq Contents /\ holder' = None
<1>1. Committed' = c /\ draft' = c
  BY DEF Publish, Committed, Contents
<1>2. QED  BY <1>1 DEF Publish

LEMMA LeaveTyped ==
  ASSUME TypeOK, NEW w \in Workers, NEW c \in Contents, Leave(w, c)
  PROVE  {Committed, draft}' \subseteq Contents /\ holder' = w
<1>1. Committed' = Committed /\ draft' = c
  BY DEF Leave, Committed
<1>2. QED  BY <1>1, TablesTyped DEF Leave

LEMMA SameTyped ==
  ASSUME TypeOK, UNCHANGED tables
  PROVE  {Committed, draft}' \subseteq Contents /\ holder' = holder
BY DEF TypeOK, tables, Committed

LEMMA SelectTyped ==
  ASSUME TypeOK, NEW w \in Workers, CommitAfterSelect(w)
  PROVE  {Committed, draft}' \subseteq Contents /\ holder' \in {None, holder}
BY TablesTyped, PublishTyped, SameTyped DEF CommitAfterSelect

LEMMA RollbackTyped ==
  ASSUME TypeOK, NEW w \in Workers, Rollback(w)
  PROVE  {Committed, draft}' \subseteq Contents /\ holder' \in {None, holder}
BY TablesTyped, PublishTyped, SameTyped DEF Rollback

\* The rows that are inserted.
LEMMA InsertedTyped ==
  ASSUME TypeOK, NEW w \in Workers, pc[w] = "record"
  PROVE  /\ key[w] \in Keys /\ result[w] \in Values /\ Json[result[w]] \in Values
         /\ Inserted(w) \in Contents
         /\ Inserted(w) = [checkpoint |-> [Sees(w).checkpoint EXCEPT ![key[w]] = Json[result[w]]],
                           row |-> Sees(w).row]
<1>1. key[w] \in Keys /\ result[w] \in Values /\ Json[result[w]] \in Values
  BY ResumeAssumption DEF TypeOK
<1>2. PICK c \in Contents, k \in Keys, v \in Values :
        c = Sees(w) /\ k = key[w] /\ v = Json[result[w]]
  BY <1>1, SeesTyped
<1>3. Inserted(w) = [c EXCEPT !.checkpoint[k] = v]
  BY <1>2 DEF Inserted
<1>4. /\ [c EXCEPT !.checkpoint[k] = v] = [checkpoint |-> [c.checkpoint EXCEPT ![k] = v], row |-> c.row]
      /\ [c EXCEPT !.checkpoint[k] = v] \in Contents
  BY <1>2 DEF Contents
<1>5. QED  BY <1>1, <1>2, <1>3, <1>4

LEMMA AppendedTyped ==
  ASSUME TypeOK, NEW w \in Workers, key[w] \in AppendKeys, NEW v \in Values
  PROVE  /\ Json[v] \in Values
         /\ Appended(w, v) \in Contents
         /\ Appended(w, v) = [checkpoint |-> Sees(w).checkpoint,
                              row |-> [Sees(w).row EXCEPT ![key[w]] = Json[v]]]
<1>1. key[w] \in Keys /\ Json[v] \in Values
  BY ResumeAssumption DEF TypeOK, Keys
<1>2. PICK c \in Contents, k \in AppendKeys, u \in Values :
        c = Sees(w) /\ k = key[w] /\ u = Json[v]
  BY <1>1, SeesTyped
<1>3. Appended(w, v) = [c EXCEPT !.row[k] = u]
  BY <1>2 DEF Appended
<1>4. /\ [c EXCEPT !.row[k] = u] = [checkpoint |-> c.checkpoint, row |-> [c.row EXCEPT ![k] = u]]
      /\ [c EXCEPT !.row[k] = u] \in Contents
  BY <1>2 DEF Contents
<1>5. QED  BY <1>1, <1>2, <1>3, <1>4

\* What TypeOK says of everything but the tables.
CallsTyped ==
  /\ pc \in [Workers -> {"idle", "load", "act", "record", "return"}]
  /\ key \in [Workers -> Keys \cup {None}]
  /\ result \in [Workers -> Values \cup {None}]
  /\ \A w \in Workers : pc[w] # "idle" => key[w] # None
  /\ \A w \in Workers : pc[w] \in {"record", "return"} <=> result[w] # None
  /\ effects \in [Keys -> Nat]
  /\ wasted \in [Keys -> Nat]
  /\ returned \subseteq [key : Keys, value : Values]
  /\ faults \in Nat

LEMMA TypeIs == TypeOK <=> /\ {Committed, draft} \subseteq Contents
                           /\ holder \in Workers \cup {None}
                           /\ CallsTyped
BY DEF TypeOK, CallsTyped

\* Every variable keeps its type in every reachable state.
THEOREM Typing == Spec => []TypeOK
<1> USE ResumeAssumption
<1>1. Init => TypeOK
  <2> SUFFICES ASSUME Init PROVE TypeOK
    OBVIOUS
  <2>1. checkpoint \in [Keys -> Values \cup {None}] /\ row \in [AppendKeys -> Values \cup {None}]
    BY DEF Init
  <2>2. Committed \in Contents /\ draft = Committed
    BY <2>1 DEF Init, Committed, Contents
  <2>3. CallsTyped
    BY DEF Init, CallsTyped
  <2>4. QED  BY <2>2, <2>3, TypeIs DEF Init
<1>2. TypeOK /\ [Next]_vars => TypeOK'
  <2> SUFFICES ASSUME TypeOK, [Next]_vars PROVE TypeOK'
    OBVIOUS
  <2>a. CallsTyped
    BY TypeIs
  <2>b. {Committed, draft}' \subseteq Contents /\ holder' \in Workers \cup {None} /\ CallsTyped' => TypeOK'
    BY TypeIs DEF TypeOK, CallsTyped
  <2>c. holder \in Workers \cup {None}
    BY DEF TypeOK
  <2> DEFINE TablesTypedNext == {Committed, draft}' \subseteq Contents /\ holder' \in Workers \cup {None}
  <2>d. UNCHANGED tables => TablesTypedNext
    BY <2>c, SameTyped
  <2>1. ASSUME NEW w \in Workers, NEW k \in Keys, Call(w, k) PROVE TypeOK'
    <3>1. CallsTyped'
      BY <2>1, <2>a DEF Call, CallsTyped, Goto, history
    <3>2. QED  BY <2>1, <3>1, <2>b, <2>d DEF Call
  <2>2. ASSUME NEW w \in Workers, LoadHit(w) PROVE TypeOK'
    <3>1. Recorded(w) \in Values
      BY <2>2, SeesTyped DEF LoadHit, Recorded, Contents, TypeOK
    <3>2. CallsTyped'
      BY <2>2, <2>a, <3>1 DEF LoadHit, CallsTyped, Goto, history
    <3>3. TablesTypedNext
      BY <2>2, <2>c, SelectTyped DEF LoadHit
    <3>4. QED  BY <3>2, <3>3, <2>b
  <2>3. ASSUME NEW w \in Workers, LoadMiss(w) PROVE TypeOK'
    <3>2. CallsTyped'
      BY <2>3, <2>a DEF LoadMiss, CallsTyped, Goto, history
    <3>3. TablesTypedNext
      BY <2>3, <2>c, SelectTyped DEF LoadMiss
    <3>4. QED  BY <3>2, <3>3, <2>b
  <2>4. ASSUME NEW w \in Workers, Act(w) PROVE TypeOK'
    <3>1. PICK v \in Values : result' = [result EXCEPT ![w] = v] /\ TablesTypedNext
      <4>1. CASE Paid(w)
        BY <4>1, <2>d DEF Paid
      <4>2. CASE AppendFinds(w)
        <5>1. Sees(w).row[key[w]] \in Values
          BY <4>2, SeesTyped DEF AppendFinds, Contents
        <5>2. QED  BY <4>2, <5>1, <2>d DEF AppendFinds
      <4>3. CASE AppendInserts(w)
        <5>1. PICK v \in Values : Publish(Appended(w, v)) /\ result' = [result EXCEPT ![w] = Json[v]]
          BY <4>3 DEF AppendInserts
        <5>2. Json[v] \in Values /\ Appended(w, v) \in Contents
          BY <4>3, AppendedTyped DEF AppendInserts
        <5>3. TablesTypedNext
          BY <5>1, <5>2, PublishTyped
        <5>4. QED  BY <5>1, <5>2, <5>3
      <4>4. QED  BY <2>4, <4>1, <4>2, <4>3 DEF Act
    <3>2. CallsTyped'
      <4>1. key[w] \in Keys
        BY <2>4, <2>a DEF Act, CallsTyped
      <4>2. QED  BY <2>4, <2>a, <3>1, <4>1 DEF Act, CallsTyped, Goto
    <3>3. QED  BY <3>1, <3>2, <2>b
  <2>5. ASSUME NEW w \in Workers, Record(w) PROVE TypeOK'
    <3>1. CallsTyped'
      BY <2>5, <2>a DEF Record, CallsTyped, Goto, history
    <3>2. TablesTypedNext
      BY <2>5, InsertedTyped, PublishTyped DEF Record
    <3>3. QED  BY <3>1, <3>2, <2>b
  <2>6. ASSUME NEW w \in Workers, Return(w) PROVE TypeOK'
    <3>1. key[w] \in Keys /\ result[w] \in Values
      BY <2>6, <2>a DEF Return, CallsTyped
    <3>2. CallsTyped'
      BY <2>6, <2>a, <3>1 DEF Return, CallsTyped, Goto
    <3>3. QED  BY <2>6, <3>2, <2>b, <2>d DEF Return
  <2>7. ASSUME NEW w \in Workers, Abandon(w), wasted' \in [Keys -> Nat], faults' \in Nat
        PROVE  CallsTyped'
    BY <2>7, <2>a DEF Abandon, CallsTyped, Goto
  <2>8. ASSUME NEW lost, Waste(lost) PROVE wasted' \in [Keys -> Nat]
    BY <2>8, <2>a DEF Waste, CallsTyped
  <2>9. faults \in Nat /\ wasted \in [Keys -> Nat] /\ (AFault => faults' \in Nat)
    BY <2>a DEF AFault, CallsTyped
  <2>10. ASSUME NEW w \in Workers, RecordRefused(w) PROVE TypeOK'
    <3>1. CallsTyped'
      BY <2>10, <2>7, <2>8, <2>9 DEF RecordRefused
    <3>2. TablesTypedNext
      BY <2>10, SeesTyped, LeaveTyped DEF RecordRefused
    <3>3. QED  BY <3>1, <3>2, <2>b
  <2>11. ASSUME NEW w \in Workers, Raises(w) PROVE TypeOK'
    <3>1. CallsTyped'
      BY <2>11, <2>7, <2>8, <2>9 DEF Raises
    <3>2. QED  BY <2>11, <3>1, <2>b, <2>d DEF Raises
  <2>12. ASSUME NEW w \in Workers, AppendRefused(w) PROVE TypeOK'
    <3>1. CallsTyped'
      BY <2>12, <2>7, <2>9 DEF AppendRefused
    <3>2. TablesTypedNext
      BY <2>12, SeesTyped, LeaveTyped DEF AppendRefused
    <3>3. QED  BY <3>1, <3>2, <2>b
  <2>13. ASSUME NEW w \in Workers, CommitFails(w) PROVE TypeOK'
    <3>1. CallsTyped'
      BY <2>13, <2>7, <2>9 DEF CommitFails
    <3>2. TablesTypedNext
      <4>1. CASE pc[w] = "act" /\ key[w] \in AppendKeys /\ \E v \in Values : Leave(w, Appended(w, v))
        BY <4>1, AppendedTyped, LeaveTyped
      <4>2. CASE pc[w] = "record" /\ Leave(w, Inserted(w))
        BY <4>2, InsertedTyped, LeaveTyped
      <4>3. QED  BY <2>13, <4>1, <4>2 DEF CommitFails
    <3>3. QED  BY <3>1, <3>2, <2>b
  <2>14. ASSUME NEW w \in Workers, Dies(w) PROVE TypeOK'
    <3>1. CallsTyped'
      BY <2>14, <2>7, <2>8, <2>9 DEF Dies
    <3>2. TablesTypedNext
      BY <2>14, <2>c, RollbackTyped DEF Dies
    <3>3. QED  BY <3>1, <3>2, <2>b
  <2>15. ASSUME NEW w \in Workers, Ends(w) PROVE TypeOK'
    <3>1. CallsTyped'
      BY <2>15, <2>8, <2>a DEF Ends, CallsTyped, call
    <3>2. TablesTypedNext
      BY <2>15, <2>c, RollbackTyped DEF Ends
    <3>3. QED  BY <3>1, <3>2, <2>b
  <2>16. CASE UNCHANGED vars
    <3>1. CallsTyped'
      BY <2>16, <2>a DEF vars, call, history, CallsTyped
    <3>2. QED  BY <2>16, <3>1, <2>b, <2>d DEF vars
  <2>17. QED
    BY <2>1, <2>2, <2>3, <2>4, <2>5, <2>6, <2>10, <2>11, <2>12, <2>13, <2>14, <2>15, <2>16 DEF Next, Step, Fault
<1>3. QED  BY <1>1, <1>2, PTL DEF Spec

---------------------------------------------------------------------------
(* The transaction that is left open.                                      *)

\* Between the tables a and b nothing was changed or removed, and at most one row added.
OneAdded(a, b) ==
  /\ \A k \in DOMAIN a : a[k] # None => b[k] = a[k]
  /\ \A k, l \in DOMAIN a : a[k] # b[k] /\ a[l] # b[l] => k = l

\* The inductive invariant: only a call that failed leaves a transaction open, and the
\* next call on that connection, which begins with a commit, closes it before it acts;
\* so no transaction ever holds more than the one row of a failed commit.
OneOpen ==
  /\ holder = None => draft = Committed
  /\ \A w \in Workers : holder = w => pc[w] \in {"idle", "load"}
  /\ OneAdded(checkpoint, draft.checkpoint)
  /\ OneAdded(row, draft.row)

\* One row in an empty place.
LEMMA AddedRow ==
  ASSUME NEW a, NEW k \in DOMAIN a, NEW v, a[k] = None
  PROVE  OneAdded(a, [a EXCEPT ![k] = v]) /\ OneAdded(a, a)
BY DEF OneAdded

\* A call that is past its load sees what is committed.
LEMMA SeesCommitted ==
  ASSUME OneOpen, NEW w \in Workers, pc[w] \in {"act", "record", "return"}
  PROVE  /\ holder # w
         /\ Sees(w) = Committed
         /\ CanWrite(w) => holder = None /\ draft = Committed
BY DEF OneOpen, Sees, CanWrite

\* What the tables are after each operation of a connection.
LEMMA TablesAfter ==
  ASSUME NEW w
  PROVE  /\ \A c : Publish(c) => /\ checkpoint' = c.checkpoint /\ row' = c.row
                                 /\ draft' = c /\ holder' = None
         /\ Publish(Committed) => UNCHANGED <<checkpoint, row>> /\ draft' = Committed /\ holder' = None
         /\ CommitAfterSelect(w) =>
              /\ checkpoint' = Sees(w).checkpoint /\ row' = Sees(w).row
              /\ draft' = draft
              /\ holder' = IF holder = w THEN None ELSE holder
         /\ Rollback(w) =>
              /\ UNCHANGED <<checkpoint, row>>
              /\ draft' = IF holder = w THEN Committed ELSE draft
              /\ holder' = IF holder = w THEN None ELSE holder
BY DEF Publish, CommitAfterSelect, Rollback, Committed, Sees, tables

LEMMA OneOpenStep ==
  ASSUME TypeOK, OneOpen, [Next]_vars
  PROVE  OneOpen'
<1> USE ResumeAssumption
<1>a. /\ checkpoint \in [Keys -> Values \cup {None}] /\ row \in [AppendKeys -> Values \cup {None}]
      /\ draft \in Contents
      /\ pc \in [Workers -> {"idle", "load", "act", "record", "return"}]
  BY TablesTyped DEF TypeOK
<1>b. OneAdded(checkpoint, checkpoint) /\ OneAdded(row, row)
  BY DEF OneAdded
<1>c. ASSUME UNCHANGED tables, NEW w \in Workers, NEW label,
             pc' = [pc EXCEPT ![w] = label], holder # w \/ label \in {"idle", "load"}
      PROVE  OneOpen'
  BY <1>a, <1>c DEF OneOpen, Committed, tables
<1>d. ASSUME holder' = None, draft' = Committed' PROVE OneOpen'
  <2>1. None \notin Workers
    OBVIOUS
  <2>2. OneAdded(checkpoint', draft'.checkpoint) /\ OneAdded(row', draft'.row)
    BY <1>d DEF OneAdded, Committed
  <2>3. QED  BY <1>d, <2>1, <2>2 DEF OneOpen
<1>e. ASSUME NEW w \in Workers, NEW c, Leave(w, c), pc' = [pc EXCEPT ![w] = "idle"],
             OneAdded(checkpoint, c.checkpoint), OneAdded(row, c.row)
      PROVE  OneOpen'
  <2>1. holder' = w /\ holder' # None /\ draft' = c /\ UNCHANGED <<checkpoint, row>>
    BY <1>e DEF Leave
  <2>2. \A u \in Workers : holder' = u => pc'[u] \in {"idle", "load"}
    BY <1>a, <1>e, <2>1
  <2>3. OneAdded(checkpoint', draft'.checkpoint) /\ OneAdded(row', draft'.row)
    BY <1>e, <2>1
  <2>4. QED  BY <2>1, <2>2, <2>3 DEF OneOpen
<1>f. ASSUME NEW c, Publish(c), c \in Contents PROVE OneOpen'
  BY <1>d, <1>f DEF Publish, Committed, Contents
<1>g. ASSUME NEW w \in Workers, NEW label, CommitAfterSelect(w) \/ Rollback(w),
             pc' = [pc EXCEPT ![w] = label]
      PROVE  OneOpen'
  <2>1. CASE holder = w
    <3>1. Publish(draft) \/ Publish(Committed)
      BY <1>g, <2>1 DEF CommitAfterSelect, Rollback
    <3>2. QED  BY <3>1, <1>a, <1>f, TablesTyped
  <2>2. CASE holder # w
    BY <1>c, <1>g, <2>2 DEF CommitAfterSelect, Rollback
  <2>3. QED  BY <2>1, <2>2
<1>1. ASSUME NEW w \in Workers, NEW k \in Keys, Call(w, k) PROVE OneOpen'
  BY <1>1, <1>c DEF Call, Goto
<1>2. ASSUME NEW w \in Workers, LoadHit(w) \/ LoadMiss(w) PROVE OneOpen'
  BY <1>2, <1>g DEF LoadHit, LoadMiss, Goto
<1>3. ASSUME NEW w \in Workers, Act(w) PROVE OneOpen'
  <2>1. holder # w /\ pc' = [pc EXCEPT ![w] = "record"]
    BY <1>3, SeesCommitted DEF Act, Goto
  <2>2. CASE UNCHANGED tables
    BY <1>c, <2>1, <2>2
  <2>3. CASE AppendInserts(w)
    BY <1>f, <2>3, AppendedTyped DEF AppendInserts
  <2>4. QED  BY <1>3, <2>2, <2>3 DEF Act, Paid, AppendFinds
<1>4. ASSUME NEW w \in Workers, Record(w) PROVE OneOpen'
  BY <1>4, <1>f, InsertedTyped DEF Record
<1>5. ASSUME NEW w \in Workers, Return(w) \/ Raises(w) PROVE OneOpen'
  BY <1>5, <1>c DEF Return, Raises, Abandon, Goto
<1>6. ASSUME NEW w \in Workers, RecordRefused(w) \/ AppendRefused(w) PROVE OneOpen'
  <2>1. Sees(w) = Committed /\ Leave(w, Sees(w)) /\ pc' = [pc EXCEPT ![w] = "idle"]
    BY <1>6, SeesCommitted DEF RecordRefused, AppendRefused, Abandon, Goto
  <2>2. Committed.checkpoint = checkpoint /\ Committed.row = row
    BY DEF Committed
  <2>3. QED  BY <1>b, <1>e, <2>1, <2>2
<1>7. ASSUME NEW w \in Workers, CommitFails(w) PROVE OneOpen'
  <2>1. pc[w] \in {"act", "record"} /\ pc' = [pc EXCEPT ![w] = "idle"]
    BY <1>7 DEF CommitFails, Abandon, Goto
  <2>2. Sees(w).checkpoint = checkpoint /\ Sees(w).row = row
    BY <2>1, SeesCommitted DEF Committed
  <2>3. CASE pc[w] = "act" /\ key[w] \in AppendKeys /\ Sees(w).row[key[w]] = None
             /\ \E v \in Values : Leave(w, Appended(w, v))
    <3>1. PICK v \in Values : Leave(w, Appended(w, v))
      BY <2>3
    <3>2. Appended(w, v) = [checkpoint |-> checkpoint, row |-> [row EXCEPT ![key[w]] = Json[v]]]
      BY <2>2, <2>3, AppendedTyped
    <3>3. OneAdded(row, [row EXCEPT ![key[w]] = Json[v]])
      BY <1>a, <2>2, <2>3, AddedRow
    <3>4. QED  BY <1>b, <1>e, <2>1, <3>1, <3>2, <3>3
  <2>4. CASE pc[w] = "record" /\ Recorded(w) = None /\ Leave(w, Inserted(w))
    <3>1. Inserted(w) = [checkpoint |-> [checkpoint EXCEPT ![key[w]] = Json[result[w]]], row |-> row]
      BY <2>2, <2>4, InsertedTyped
    <3>2. key[w] \in Keys /\ checkpoint[key[w]] = None
      BY <2>2, <2>4, InsertedTyped DEF Recorded
    <3>3. OneAdded(checkpoint, [checkpoint EXCEPT ![key[w]] = Json[result[w]]])
      BY <1>a, <3>2, AddedRow
    <3>4. QED  BY <1>b, <1>e, <2>1, <2>4, <3>1, <3>3
  <2>5. QED  BY <1>7, <2>3, <2>4 DEF CommitFails
<1>8. ASSUME NEW w \in Workers, Dies(w) PROVE OneOpen'
  BY <1>8, <1>g DEF Dies, Abandon, Goto
<1>9. ASSUME NEW w \in Workers, Ends(w) PROVE OneOpen'
  <2>1. pc' = [pc EXCEPT ![w] = "idle"]
    BY <1>9, <1>a DEF Ends, call
  <2>2. QED  BY <1>9, <1>g, <2>1 DEF Ends
<1>10. CASE UNCHANGED vars
  BY <1>10 DEF vars, tables, call, OneOpen, Committed
<1>11. QED
  BY <1>1, <1>2, <1>3, <1>4, <1>5, <1>6, <1>7, <1>8, <1>9, <1>10 DEF Next, Step, Fault

\* No connection ever keeps more than one row uncommitted, nor acts while it does.
LEMMA OneOpenInvariant == Spec => []OneOpen
<1>1. Init => OneOpen
  <2> SUFFICES ASSUME Init PROVE OneOpen
    OBVIOUS
  <2>1. draft.checkpoint = checkpoint /\ draft.row = row
    BY DEF Init, Committed
  <2>2. OneAdded(checkpoint, checkpoint) /\ OneAdded(row, row)
    BY DEF OneAdded
  <2>3. QED  BY <2>1, <2>2, ResumeAssumption DEF Init, OneOpen
<1>2. TypeOK /\ OneOpen /\ [Next]_vars => OneOpen'
  BY OneOpenStep
<1>3. QED  BY <1>1, <1>2, Typing, PTL DEF Spec

---------------------------------------------------------------------------
(* What is recorded decides what is returned.                              *)

\* What JSON keeps of a value is kept by a second round trip.
RoundTripped(v) == v = None \/ Json[v] = v

\* The inductive invariant: the outcome of a step is fixed by its committed checkpoint,
\* from the moment a call holds it as its answer.
Decided ==
  /\ \A k \in Keys : RoundTripped(draft.checkpoint[k])
  /\ \A w \in Workers : pc[w] = "return" =>
       /\ checkpoint[key[w]] # None
       /\ Json[result[w]] = checkpoint[key[w]]
  /\ \A a \in returned :
       /\ checkpoint[a.key] # None
       /\ Json[a.value] = checkpoint[a.key]

\* What is committed is in the draft as well.
LEMMA CommittedInDraft ==
  ASSUME TypeOK, OneOpen
  PROVE  /\ \A k \in Keys : checkpoint[k] # None => draft.checkpoint[k] = checkpoint[k]
         /\ \A k \in AppendKeys : row[k] # None => draft.row[k] = row[k]
         /\ \A w \in Workers : \A k \in Keys :
              checkpoint[k] # None => Sees(w).checkpoint[k] = checkpoint[k]
         /\ \A w \in Workers : \A k \in AppendKeys : row[k] # None => Sees(w).row[k] = row[k]
<1>1. DOMAIN checkpoint = Keys /\ DOMAIN row = AppendKeys
  BY TablesTyped
<1>2. /\ \A k \in Keys : checkpoint[k] # None => draft.checkpoint[k] = checkpoint[k]
      /\ \A k \in AppendKeys : row[k] # None => draft.row[k] = row[k]
  BY <1>1 DEF OneOpen, OneAdded
<1>3. QED  BY <1>2 DEF Sees, Committed

\* A commit keeps every decided outcome and every row, and what no operation commits, or
\* leaves to be committed, was there or is the row that is inserted.
LEMMA TablesGrow ==
  ASSUME TypeOK, OneOpen, [Next]_vars
  PROVE  /\ \A k \in Keys : checkpoint[k] # None => checkpoint'[k] = checkpoint[k]
         /\ \A k \in AppendKeys : row[k] # None => row'[k] = row[k]
<1> DEFINE Kept == /\ \A k \in Keys : checkpoint[k] # None => checkpoint'[k] = checkpoint[k]
                   /\ \A k \in AppendKeys : row[k] # None => row'[k] = row[k]
<1>1. UNCHANGED <<checkpoint, row>> => Kept
  OBVIOUS
<1>2. ASSUME NEW w \in Workers, CommitAfterSelect(w) PROVE Kept
  BY <1>2, TablesAfter, CommittedInDraft
<1>3. ASSUME NEW w \in Workers, AppendInserts(w), pc[w] = "act" PROVE Kept
  <2>1. PICK v \in Values : Publish(Appended(w, v))
    BY <1>3 DEF AppendInserts
  <2>2. Appended(w, v) = [checkpoint |-> checkpoint, row |-> [row EXCEPT ![key[w]] = Json[v]]]
    BY <1>3, AppendedTyped, SeesCommitted DEF AppendInserts, Committed
  <2>3. checkpoint' = checkpoint /\ row' = [row EXCEPT ![key[w]] = Json[v]] /\ row[key[w]] = None
    BY <1>3, <2>1, <2>2, SeesCommitted DEF AppendInserts, Publish, Committed
  <2>4. QED  BY <2>3, TablesTyped
<1>4. ASSUME NEW w \in Workers, Record(w) PROVE Kept
  <2>1. Inserted(w) = [checkpoint |-> [checkpoint EXCEPT ![key[w]] = Json[result[w]]], row |-> row]
    BY <1>4, InsertedTyped, SeesCommitted DEF Record, Committed
  <2>2. /\ checkpoint' = [checkpoint EXCEPT ![key[w]] = Json[result[w]]] /\ row' = row
        /\ checkpoint[key[w]] = None
    BY <1>4, <2>1, SeesCommitted DEF Record, Publish, Recorded, Committed
  <2>3. QED  BY <2>2, TablesTyped
<1>5. ASSUME NEW w \in Workers, Act(w) PROVE Kept
  BY <1>1, <1>3, <1>5 DEF Act, Paid, AppendFinds, tables
<1>6. \/ UNCHANGED <<checkpoint, row>>
      \/ \E w \in Workers : CommitAfterSelect(w) \/ Act(w) \/ Record(w) \/ Rollback(w)
  BY DEF Next, Step, Fault, Call, LoadHit, LoadMiss, Return, RecordRefused, Raises, AppendRefused,
         CommitFails, Dies, Ends, Leave, tables, vars
<1>7. QED  BY <1>1, <1>2, <1>4, <1>5, <1>6, TablesAfter

\* Whatever a step leaves in the draft was in it, was committed, or came out of JSON.
LEMMA DraftGrows ==
  ASSUME TypeOK, OneOpen, [Next]_vars
  PROVE  /\ \A k \in Keys :
              \/ draft'.checkpoint[k] \in {draft.checkpoint[k], checkpoint[k]}
              \/ \E v \in Values : draft'.checkpoint[k] = Json[v]
         /\ \A k \in AppendKeys :
              \/ draft'.row[k] \in {draft.row[k], row[k]}
              \/ \E v \in Values : draft'.row[k] = Json[v]
<1> DEFINE Grown(c) == /\ \A k \in Keys :
                            \/ c.checkpoint[k] \in {draft.checkpoint[k], checkpoint[k]}
                            \/ \E v \in Values : c.checkpoint[k] = Json[v]
                       /\ \A k \in AppendKeys :
                            \/ c.row[k] \in {draft.row[k], row[k]}
                            \/ \E v \in Values : c.row[k] = Json[v]
<1>1. Grown(draft) /\ Grown(Committed) /\ \A w \in Workers : Grown(Sees(w))
  BY DEF Committed, Sees
<1>2. ASSUME NEW w \in Workers, key[w] \in AppendKeys, NEW v \in Values PROVE Grown(Appended(w, v))
  <2>1. Appended(w, v) = [checkpoint |-> Sees(w).checkpoint, row |-> [Sees(w).row EXCEPT ![key[w]] = Json[v]]]
    BY <1>2, AppendedTyped
  <2>2. Grown(Sees(w)) /\ Sees(w).row \in [AppendKeys -> Values \cup {None}]
    BY <1>1, SeesTyped DEF Contents
  <2>3. QED  BY <2>1, <2>2
<1>3. ASSUME NEW w \in Workers, pc[w] = "record" PROVE Grown(Inserted(w))
  <2>1. /\ Inserted(w) = [checkpoint |-> [Sees(w).checkpoint EXCEPT ![key[w]] = Json[result[w]]], row |-> Sees(w).row]
        /\ result[w] \in Values
    BY <1>3, InsertedTyped
  <2>2. Grown(Sees(w)) /\ Sees(w).checkpoint \in [Keys -> Values \cup {None}]
    BY <1>1, SeesTyped DEF Contents
  <2>3. QED  BY <2>1, <2>2
<1> HIDE DEF Grown
<1>4. ASSUME NEW w \in Workers, CommitAfterSelect(w) \/ Rollback(w) PROVE Grown(draft')
  BY <1>1, <1>4, TablesAfter
<1>5. ASSUME UNCHANGED tables PROVE Grown(draft')
  BY <1>1, <1>5 DEF tables
<1>6. ASSUME NEW c, Publish(c) \/ \E w \in Workers : Leave(w, c), Grown(c) PROVE Grown(draft')
  BY <1>6 DEF Publish, Leave
<1>7. ASSUME NEW w \in Workers, Act(w) PROVE Grown(draft')
  BY <1>2, <1>5, <1>6, <1>7 DEF Act, Paid, AppendFinds, AppendInserts
<1>8. ASSUME NEW w \in Workers, CommitFails(w) PROVE Grown(draft')
  BY <1>2, <1>3, <1>6, <1>8 DEF CommitFails
<1>9. ASSUME NEW w \in Workers, Record(w) PROVE Grown(draft')
  BY <1>3, <1>6, <1>9 DEF Record
<1>10. ASSUME NEW w \in Workers, RecordRefused(w) \/ AppendRefused(w) PROVE Grown(draft')
  BY <1>1, <1>6, <1>10 DEF RecordRefused, AppendRefused
<1>11. Grown(draft')
  BY <1>4, <1>5, <1>7, <1>8, <1>9, <1>10
     DEF Next, Step, Fault, Call, LoadHit, LoadMiss, Return, Raises, Dies, Ends, vars
<1>12. QED  BY <1>11 DEF Grown

LEMMA DecidedStep ==
  ASSUME TypeOK, OneOpen, Decided, [Next]_vars
  PROVE  Decided'
<1> USE ResumeAssumption
<1>1. \A k \in Keys : RoundTripped(checkpoint[k])
  BY CommittedInDraft DEF Decided, RoundTripped
<1>2. \A k \in Keys : RoundTripped(draft'.checkpoint[k])
  BY <1>1, DraftGrows DEF Decided, RoundTripped
<1>3. \A k \in Keys : checkpoint[k] # None => checkpoint'[k] = checkpoint[k]
  BY TablesGrow
<1>4. \A w \in Workers : pc'[w] = "return" => checkpoint'[key'[w]] # None /\ Json[result'[w]] = checkpoint'[key'[w]]
  <2> SUFFICES ASSUME NEW u \in Workers, pc'[u] = "return"
               PROVE  checkpoint'[key'[u]] # None /\ Json[result'[u]] = checkpoint'[key'[u]]
    OBVIOUS
  <2>a. /\ pc \in [Workers -> {"idle", "load", "act", "record", "return"}]
        /\ key \in [Workers -> Keys \cup {None}]
        /\ result \in [Workers -> Values \cup {None}]
        /\ \A w \in Workers : pc[w] # "idle" => key[w] \in Keys
    BY DEF TypeOK
  <2>1. CASE pc[u] = "return" /\ key'[u] = key[u] /\ result'[u] = result[u]
    BY <1>3, <2>a, <2>1 DEF Decided
  <2>2. CASE LoadHit(u)
    <3>1. key'[u] = key[u] /\ key[u] \in Keys /\ result'[u] = Sees(u).checkpoint[key[u]] /\ result'[u] # None
      BY <2>2, <2>a DEF LoadHit, Recorded
    <3>2. checkpoint' = Sees(u).checkpoint
      BY <2>2, TablesAfter DEF LoadHit
    <3>3. RoundTripped(Sees(u).checkpoint[key[u]])
      BY <1>1, <3>1 DEF Decided, Sees, Committed
    <3>4. QED  BY <3>1, <3>2, <3>3 DEF RoundTripped
  <2>3. CASE Record(u)
    <3>1. key'[u] = key[u] /\ key[u] \in Keys /\ result'[u] = result[u] /\ Json[result[u]] \in Values
      BY <2>3, InsertedTyped DEF Record
    <3>2. checkpoint' = [Sees(u).checkpoint EXCEPT ![key[u]] = Json[result[u]]]
      BY <2>3, InsertedTyped DEF Record, Publish
    <3>3. Sees(u).checkpoint \in [Keys -> Values \cup {None}]
      BY SeesTyped DEF Contents
    <3>4. QED  BY <3>1, <3>2, <3>3
  <2>4. \/ LoadHit(u) \/ Record(u)
        \/ pc[u] = "return" /\ key'[u] = key[u] /\ result'[u] = result[u]
    <3>1. CASE UNCHANGED <<pc, key, result>>
      BY <3>1
    <3>2. ASSUME NEW w \in Workers, NEW label,
                 pc' = [pc EXCEPT ![w] = label], label = "return" => u # w,
                 \/ key' = key \/ \E k : key' = [key EXCEPT ![w] = k],
                 \/ result' = result \/ \E v : result' = [result EXCEPT ![w] = v]
          PROVE  pc[u] = "return" /\ key'[u] = key[u] /\ result'[u] = result[u]
      <4>1. u # w
        BY <2>a, <3>2
      <4>2. QED  BY <2>a, <3>2, <4>1
    <3>3. ASSUME NEW w \in Workers, NEW k \in Keys, Call(w, k)
          PROVE  pc[u] = "return" /\ key'[u] = key[u] /\ result'[u] = result[u]
      BY <3>2, <3>3 DEF Call, Goto
    <3>4. ASSUME NEW w \in Workers, LoadMiss(w) \/ Act(w) \/ Return(w) \/ Abandon(w)
          PROVE  pc[u] = "return" /\ key'[u] = key[u] /\ result'[u] = result[u]
      <4>1. result' = result \/ \E v : result' = [result EXCEPT ![w] = v]
        BY <3>4 DEF LoadMiss, Act, Paid, AppendFinds, AppendInserts, Return, Abandon
      <4>2. key' = key \/ \E k : key' = [key EXCEPT ![w] = k]
        BY <3>4 DEF LoadMiss, Act, Return, Abandon
      <4>3. \E label \in {"act", "record", "idle"} : pc' = [pc EXCEPT ![w] = label]
        BY <3>4 DEF LoadMiss, Act, Return, Abandon, Goto
      <4>4. QED  BY <3>2, <4>1, <4>2, <4>3
    <3>5. ASSUME NEW w \in Workers, LoadHit(w) \/ Record(w), w # u
          PROVE  pc[u] = "return" /\ key'[u] = key[u] /\ result'[u] = result[u]
      BY <3>2, <3>5 DEF LoadHit, Record, Goto
    <3>6. QED
      BY <3>1, <3>3, <3>4, <3>5
         DEF Next, Step, Fault, RecordRefused, Raises, AppendRefused, CommitFails, Dies, Ends, call, vars
  <2>5. QED  BY <2>1, <2>2, <2>3, <2>4
<1>5. \A a \in returned' : checkpoint'[a.key] # None /\ Json[a.value] = checkpoint'[a.key]
  <2>1. ASSUME NEW w \in Workers, Return(w)
        PROVE  \A a \in returned' : checkpoint'[a.key] # None /\ Json[a.value] = checkpoint'[a.key]
    <3>1. returned' = returned \cup {[key |-> key[w], value |-> result[w]]} /\ checkpoint' = checkpoint
      BY <2>1 DEF Return, tables
    <3>2. checkpoint[key[w]] # None /\ Json[result[w]] = checkpoint[key[w]]
      BY <2>1 DEF Return, Decided
    <3>3. QED  BY <3>1, <3>2 DEF Decided
  <2>2. CASE returned' = returned
    BY <1>3, <2>2 DEF Decided, TypeOK
  <2>3. returned' = returned \/ \E w \in Workers : Return(w)
    BY DEF Next, Step, Fault, Call, LoadHit, LoadMiss, Act, Record, RecordRefused, Raises, AppendRefused,
           CommitFails, Dies, Abandon, Ends, history, vars
  <2>4. QED  BY <2>1, <2>2, <2>3
<1>6. QED  BY <1>2, <1>4, <1>5 DEF Decided

\* The inductive invariant holds in every reachable state.
LEMMA DecidedInvariant == Spec => []Decided
<1>1. Init => Decided
  BY DEF Init, Decided, RoundTripped, Committed
<1>2. TypeOK /\ OneOpen /\ Decided /\ [Next]_vars => Decided'
  BY DecidedStep
<1>3. QED  BY <1>1, <1>2, Typing, OneOpenInvariant, PTL DEF Spec

\* Two calls for one key never return results that differ after JSON, whichever of them
\* ran the action, whoever crashed, and whatever a failed commit left on a connection.
THEOREM Agreement == Spec => []ReplayAgrees
<1>1. Decided => ReplayAgrees
  BY DEF Decided, ReplayAgrees
<1>2. QED  BY <1>1, DecidedInvariant, PTL

\* One more call that returns is one more answer.
LEMMA OneMoreAnswer ==
  ASSUME NEW calls, NEW c
  PROVE  Answers(calls \cup {c}) = Answers(calls) \cup {[key |-> c.key, value |-> Json[c.value]]}
BY DEF Answers

\* A load that commits what an earlier call left behind decides at most one step.
LEMMA CommitDecides ==
  ASSUME TypeOK, OneOpen, NEW w \in Workers, CommitAfterSelect(w)
  PROVE  \/ checkpoint' = checkpoint
         \/ \E k \in Keys, v \in Values :
              checkpoint[k] = None /\ checkpoint' = [checkpoint EXCEPT ![k] = v]
<1> USE ResumeAssumption
<1>1. checkpoint' = Sees(w).checkpoint
  BY TablesAfter
<1>2. CASE Sees(w).checkpoint = checkpoint
  BY <1>1, <1>2
<1>3. CASE Sees(w).checkpoint # checkpoint
  <2>1. Sees(w).checkpoint = draft.checkpoint
    BY <1>3 DEF Sees, Committed
  <2>2. PICK a, b : /\ a = checkpoint /\ b = draft.checkpoint
                    /\ a \in [Keys -> Values \cup {None}] /\ b \in [Keys -> Values \cup {None}]
    BY TablesTyped
  <2>3. OneAdded(a, b) /\ a # b
    BY <1>3, <2>1, <2>2 DEF OneOpen
  <2>4. PICK k \in Keys : a[k] # b[k]
    BY <2>2, <2>3
  <2>5. a[k] = None /\ b[k] \in Values /\ \A l \in Keys : l # k => b[l] = a[l]
    BY <2>2, <2>3, <2>4 DEF OneAdded
  <2>6. b = [a EXCEPT ![k] = b[k]]
    BY <2>2, <2>5
  <2>7. checkpoint' = b
    BY <1>1, <2>1, <2>2
  <2>8. checkpoint[k] = None /\ checkpoint' = [checkpoint EXCEPT ![k] = b[k]]
    BY <2>2, <2>5, <2>6, <2>7
  <2>9. QED  BY <2>5, <2>8
<1>4. QED  BY <1>2, <1>3

\* checkpointed() implements a write-once outcome per step: each step decides an outcome,
\* answers with the decided one, or changes neither.
THEOREM Refinement == Spec => ImplementsOutcome
<1> USE ResumeAssumption
<1>1. Init => Outcome!Init
  BY DEF Init, Outcome!Init, Answers
<1>2. TypeOK /\ OneOpen /\ Decided /\ [Next]_vars => [Outcome!Next]_(Outcome!vars)
  <2> SUFFICES ASSUME TypeOK, OneOpen, Decided, [Next]_vars PROVE [Outcome!Next]_(Outcome!vars)
    OBVIOUS
  <2>a. ASSUME NEW k \in Keys, NEW v \in Values, checkpoint[k] = None,
               checkpoint' = [checkpoint EXCEPT ![k] = v], UNCHANGED returned
        PROVE  Outcome!Next
    <3>1. Outcome!Decide(k, v)
      BY <2>a DEF Outcome!Decide, Answers
    <3>2. QED  BY <3>1 DEF Outcome!Next
  <2>b. UNCHANGED <<checkpoint, returned>> => UNCHANGED Outcome!vars
    BY DEF Outcome!vars, Answers
  <2>1. ASSUME NEW w \in Workers, Record(w) PROVE Outcome!Next
    <3>1. key[w] \in Keys /\ Json[result[w]] \in Values
      BY <2>1, InsertedTyped DEF Record
    <3>2. Inserted(w).checkpoint = [checkpoint EXCEPT ![key[w]] = Json[result[w]]]
      BY <2>1, InsertedTyped, SeesCommitted DEF Record, Committed
    <3>3. checkpoint' = [checkpoint EXCEPT ![key[w]] = Json[result[w]]] /\ checkpoint[key[w]] = None
      BY <2>1, <3>2, SeesCommitted DEF Record, Publish, Recorded, Committed
    <3>4. QED  BY <2>1, <2>a, <3>1, <3>3 DEF Record, history
  <2>2. ASSUME NEW w \in Workers, Return(w) PROVE Outcome!Next
    <3>1. PICK k \in Keys, v \in Values : k = key[w] /\ v = result[w]
      BY <2>2 DEF Return, TypeOK
    <3>2. checkpoint[k] # None /\ Json[v] = checkpoint[k]
      BY <2>2, <3>1 DEF Return, Decided
    <3>3. returned' = returned \cup {[key |-> k, value |-> v]} /\ UNCHANGED checkpoint
      BY <2>2, <3>1 DEF Return, tables
    <3>4. Answers(returned)' = Answers(returned) \cup {[key |-> k, value |-> Json[v]]}
      <4>1. PICK calls, c : calls = returned /\ c = [key |-> k, value |-> v]
        OBVIOUS
      <4>2. Answers(calls \cup {c}) = Answers(calls) \cup {[key |-> c.key, value |-> Json[c.value]]}
        BY OneMoreAnswer
      <4>3. c.key = k /\ c.value = v
        BY <4>1
      <4>4. QED  BY <3>3, <4>1, <4>2, <4>3 DEF Answers
    <3>5. Outcome!Answer(k)
      BY <3>2, <3>3, <3>4 DEF Outcome!Answer
    <3>6. QED  BY <3>5 DEF Outcome!Next
  <2>3. ASSUME NEW w \in Workers, LoadHit(w) \/ LoadMiss(w) PROVE [Outcome!Next]_(Outcome!vars)
    <3>1. CommitAfterSelect(w) /\ UNCHANGED returned
      BY <2>3 DEF LoadHit, LoadMiss, history
    <3>2. CASE checkpoint' = checkpoint
      BY <2>b, <3>1, <3>2
    <3>3. CASE checkpoint' # checkpoint
      BY <2>a, <3>1, <3>3, CommitDecides
    <3>4. QED  BY <3>2, <3>3
  <2>4. ASSUME NEW w \in Workers, Act(w) PROVE UNCHANGED <<checkpoint, returned>>
    <3>1. CASE UNCHANGED tables
      BY <2>4, <3>1 DEF Act, tables
    <3>2. CASE AppendInserts(w)
      <4>1. PICK v \in Values : Publish(Appended(w, v))
        BY <3>2 DEF AppendInserts
      <4>2. Appended(w, v).checkpoint = checkpoint
        BY <2>4, <3>2, AppendedTyped, SeesCommitted DEF Act, AppendInserts, Committed
      <4>3. QED  BY <2>4, <4>1, <4>2 DEF Act, Publish
    <3>3. QED  BY <2>4, <3>1, <3>2 DEF Act, Paid, AppendFinds
  <2>5. \/ \E w \in Workers : Record(w) \/ Return(w) \/ LoadHit(w) \/ LoadMiss(w) \/ Act(w)
        \/ UNCHANGED <<checkpoint, returned>>
    <3>1. \A w \in Workers : Rollback(w) => UNCHANGED checkpoint
      BY TablesAfter
    <3>2. QED
      BY <3>1 DEF Next, Step, Fault, Call, RecordRefused, Raises, AppendRefused, CommitFails, Dies, Ends,
                  Abandon, Leave, tables, history, vars
  <2>6. QED  BY <2>b, <2>1, <2>2, <2>3, <2>4, <2>5
<1>3. QED
  BY <1>1, <1>2, Typing, OneOpenInvariant, DecidedInvariant, PTL DEF Spec, ImplementsOutcome, Outcome!Spec

---------------------------------------------------------------------------
(* An append under its own key has one row.                                *)

\* The inductive invariant: the row of a key is committed before anything is recorded,
\* held or returned for it, and these all repeat it.
OneRow ==
  \A k \in AppendKeys :
    /\ RoundTripped(draft.row[k])
    /\ draft.checkpoint[k] # None => draft.checkpoint[k] = row[k]
    /\ \A w \in Workers : pc[w] \in {"record", "return"} /\ key[w] = k => result[w] = row[k]
    /\ \A a \in returned : a.key = k => a.value = row[k]

\* What a worker holds after a step, if it holds anything.
LEMMA HeldAfter ==
  ASSUME TypeOK, [Next]_vars, NEW u \in Workers, pc'[u] \in {"record", "return"}
  PROVE  \/ pc[u] \in {"record", "return"} /\ key'[u] = key[u] /\ result'[u] = result[u]
         \/ LoadHit(u)
         \/ Act(u)
<1>a. /\ pc \in [Workers -> {"idle", "load", "act", "record", "return"}]
      /\ key \in [Workers -> Keys \cup {None}]
      /\ result \in [Workers -> Values \cup {None}]
  BY DEF TypeOK
<1> DEFINE Same == pc[u] \in {"record", "return"} /\ key'[u] = key[u] /\ result'[u] = result[u]
<1>1. CASE UNCHANGED <<pc, key, result>>
  BY <1>1
<1>2. ASSUME NEW w \in Workers, NEW label,
             pc' = [pc EXCEPT ![w] = label], label \in {"record", "return"} => u # w,
             \/ key' = key \/ \E k : key' = [key EXCEPT ![w] = k],
             \/ result' = result \/ \E v : result' = [result EXCEPT ![w] = v]
      PROVE  Same
  <2>1. u # w
    BY <1>a, <1>2
  <2>2. QED  BY <1>a, <1>2, <2>1
<1>3. ASSUME NEW w \in Workers, NEW k \in Keys, Call(w, k) PROVE Same
  BY <1>2, <1>3 DEF Call, Goto
<1>4. ASSUME NEW w \in Workers, LoadMiss(w) \/ Return(w) \/ Abandon(w) PROVE Same
  <2>1. result' = result \/ \E v : result' = [result EXCEPT ![w] = v]
    BY <1>4 DEF LoadMiss, Return, Abandon
  <2>2. key' = key \/ \E k : key' = [key EXCEPT ![w] = k]
    BY <1>4 DEF LoadMiss, Return, Abandon
  <2>3. \E label \in {"act", "idle"} : pc' = [pc EXCEPT ![w] = label]
    BY <1>4 DEF LoadMiss, Return, Abandon, Goto
  <2>4. QED  BY <1>2, <2>1, <2>2, <2>3
<1>5. ASSUME NEW w \in Workers, LoadHit(w) \/ Act(w), w # u PROVE Same
  <2>1. result' = result \/ \E v : result' = [result EXCEPT ![w] = v]
    BY <1>5 DEF LoadHit, Act, Paid, AppendFinds, AppendInserts
  <2>2. key' = key
    BY <1>5 DEF LoadHit, Act
  <2>3. \E label \in {"return", "record"} : pc' = [pc EXCEPT ![w] = label]
    BY <1>5 DEF LoadHit, Act, Goto
  <2>4. QED  BY <1>2, <1>5, <2>1, <2>2, <2>3
<1>6. ASSUME NEW w \in Workers, Record(w) PROVE Same
  BY <1>a, <1>6 DEF Record, Goto
<1>7. QED
  BY <1>1, <1>3, <1>4, <1>5, <1>6
     DEF Next, Step, Fault, RecordRefused, Raises, AppendRefused, CommitFails, Dies, Ends, call, vars

\* What is recorded after a step in the draft was recorded before, or in hand.
LEMMA RecordedAfter ==
  ASSUME TypeOK, OneOpen, [Next]_vars, NEW k \in Keys
  PROVE  \/ draft'.checkpoint[k] \in {draft.checkpoint[k], checkpoint[k]}
         \/ \E w \in Workers : /\ pc[w] = "record" /\ key[w] = k
                               /\ draft'.checkpoint[k] = Json[result[w]]
<1> DEFINE Old(c) == c.checkpoint[k] \in {draft.checkpoint[k], checkpoint[k]}
<1>1. Old(draft) /\ Old(Committed) /\ \A w \in Workers : Old(Sees(w))
  BY DEF Committed, Sees
<1>2. ASSUME NEW w \in Workers, key[w] \in AppendKeys, NEW v \in Values PROVE Old(Appended(w, v))
  <2>1. Appended(w, v).checkpoint = Sees(w).checkpoint
    BY <1>2, AppendedTyped
  <2>2. QED  BY <1>1, <2>1
<1>3. ASSUME NEW w \in Workers, pc[w] = "record"
      PROVE  Old(Inserted(w)) \/ (key[w] = k /\ Inserted(w).checkpoint[k] = Json[result[w]])
  <2>1. Inserted(w).checkpoint = [Sees(w).checkpoint EXCEPT ![key[w]] = Json[result[w]]]
    BY <1>3, InsertedTyped
  <2>2. Old(Sees(w)) /\ Sees(w).checkpoint \in [Keys -> Values \cup {None}]
    BY <1>1, SeesTyped DEF Contents
  <2>3. QED  BY <2>1, <2>2
<1> HIDE DEF Old
<1>4. ASSUME NEW w \in Workers, CommitAfterSelect(w) \/ Rollback(w) PROVE Old(draft')
  BY <1>1, <1>4, TablesAfter
<1>5. ASSUME UNCHANGED tables PROVE Old(draft')
  BY <1>1, <1>5 DEF tables
<1>6. ASSUME NEW c, Publish(c) \/ \E w \in Workers : Leave(w, c) PROVE draft' = c
  BY <1>6 DEF Publish, Leave
<1>7. ASSUME NEW w \in Workers, Act(w) PROVE Old(draft')
  BY <1>2, <1>5, <1>6, <1>7 DEF Act, Paid, AppendFinds, AppendInserts
<1>8. ASSUME NEW w \in Workers, CommitFails(w) \/ Record(w)
      PROVE  Old(draft') \/ (pc[w] = "record" /\ key[w] = k /\ draft'.checkpoint[k] = Json[result[w]])
  <2>1. CASE pc[w] = "record" /\ draft' = Inserted(w)
    BY <1>3, <2>1
  <2>2. CASE key[w] \in AppendKeys /\ \E v \in Values : draft' = Appended(w, v)
    BY <1>2, <2>2
  <2>3. QED  BY <1>6, <1>8, <2>1, <2>2 DEF CommitFails, Record
<1>9. ASSUME NEW w \in Workers, RecordRefused(w) \/ AppendRefused(w) PROVE Old(draft')
  BY <1>1, <1>6, <1>9 DEF RecordRefused, AppendRefused
<1>10. Old(draft') \/ \E w \in Workers : /\ pc[w] = "record" /\ key[w] = k
                                         /\ draft'.checkpoint[k] = Json[result[w]]
  BY <1>4, <1>5, <1>7, <1>8, <1>9
     DEF Next, Step, Fault, Call, LoadHit, LoadMiss, Return, Raises, Dies, Ends, vars
<1>11. QED  BY <1>10 DEF Old

LEMMA OneRowStep ==
  ASSUME TypeOK, OneOpen, OneRow, [Next]_vars
  PROVE  OneRow'
<1> USE ResumeAssumption
<1> SUFFICES ASSUME NEW k \in AppendKeys
             PROVE  /\ RoundTripped(draft'.row[k])
                    /\ draft'.checkpoint[k] # None => draft'.checkpoint[k] = row'[k]
                    /\ \A w \in Workers : pc'[w] \in {"record", "return"} /\ key'[w] = k => result'[w] = row'[k]
                    /\ \A a \in returned' : a.key = k => a.value = row'[k]
  BY DEF OneRow, RoundTripped
<1>a. k \in Keys /\ (row[k] # None => row'[k] = row[k])
  BY TablesGrow DEF Keys
<1>b. checkpoint[k] # None => checkpoint[k] = draft.checkpoint[k]
  BY <1>a, CommittedInDraft
<1>c. row[k] # None => draft.row[k] = row[k]
  BY CommittedInDraft
<1>d. RoundTripped(row[k])
  BY <1>c DEF OneRow, RoundTripped
<1>e. \A w \in Workers : pc[w] \in {"record", "return"} => result[w] # None
  BY DEF TypeOK
<1>1. RoundTripped(draft'.row[k])
  BY <1>d, DraftGrows DEF OneRow, RoundTripped
<1>2. draft'.checkpoint[k] # None => draft'.checkpoint[k] = row'[k]
  <2>1. CASE draft'.checkpoint[k] \in {draft.checkpoint[k], checkpoint[k]}
    BY <1>a, <1>b, <2>1 DEF OneRow
  <2>2. ASSUME NEW w \in Workers, pc[w] = "record", key[w] = k, draft'.checkpoint[k] = Json[result[w]]
        PROVE  draft'.checkpoint[k] = row'[k]
    BY <1>a, <1>d, <1>e, <2>2 DEF OneRow, RoundTripped
  <2>3. QED  BY <1>a, <2>1, <2>2, RecordedAfter
<1>3. ASSUME NEW u \in Workers, pc'[u] \in {"record", "return"}, key'[u] = k PROVE result'[u] = row'[k]
  <2>1. CASE pc[u] \in {"record", "return"} /\ key'[u] = key[u] /\ result'[u] = result[u]
    BY <1>3, <1>a, <1>e, <2>1 DEF OneRow
  <2>2. CASE LoadHit(u)
    <3>1. key[u] = k /\ Sees(u).checkpoint[k] # None /\ result'[u] = Sees(u).checkpoint[k]
      BY <1>3, <2>2 DEF LoadHit, Recorded, TypeOK
    <3>2. Sees(u).checkpoint[k] = draft.checkpoint[k]
      BY <1>b, <3>1 DEF Sees, Committed
    <3>3. QED  BY <1>a, <3>1, <3>2 DEF OneRow
  <2>3. CASE Act(u)
    <3>1. key[u] = k /\ Sees(u) = Committed /\ result \in [Workers -> Values \cup {None}]
      BY <1>3, <2>3, SeesCommitted DEF Act, TypeOK
    <3>2. CASE Paid(u)
      BY <3>1, <3>2 DEF Paid
    <3>3. CASE AppendFinds(u)
      BY <1>a, <3>1, <3>3 DEF AppendFinds, Committed
    <3>4. CASE AppendInserts(u)
      <4>1. PICK v \in Values : Publish(Appended(u, v)) /\ result' = [result EXCEPT ![u] = Json[v]]
        BY <3>4 DEF AppendInserts
      <4>2. Appended(u, v).row = [row EXCEPT ![k] = Json[v]]
        BY <3>1, AppendedTyped DEF Committed
      <4>3. row' = [row EXCEPT ![k] = Json[v]] /\ row \in [AppendKeys -> Values \cup {None}]
        BY <4>1, <4>2, TablesTyped DEF Publish
      <4>4. QED  BY <3>1, <4>1, <4>3
    <3>5. QED  BY <2>3, <3>2, <3>3, <3>4 DEF Act
  <2>4. QED  BY <1>3, <2>1, <2>2, <2>3, HeldAfter
<1>4. \A a \in returned' : a.key = k => a.value = row'[k]
  <2>1. ASSUME NEW w \in Workers, Return(w), NEW a \in returned', a.key = k PROVE a.value = row'[k]
    <3>1. returned' = returned \cup {[key |-> key[w], value |-> result[w]]} /\ row' = row
      BY <2>1 DEF Return, tables
    <3>2. key[w] = k => result[w] = row[k]
      BY <2>1 DEF Return, OneRow
    <3>3. QED  BY <2>1, <3>1, <3>2 DEF OneRow
  <2>2. ASSUME returned' = returned, NEW a \in returned, a.key = k PROVE a.value = row'[k]
    <3>1. a.value = row[k] /\ a.value \in Values
      BY <2>2 DEF OneRow, TypeOK
    <3>2. QED  BY <1>a, <3>1
  <2>3. returned' = returned \/ \E w \in Workers : Return(w)
    BY DEF Next, Step, Fault, Call, LoadHit, LoadMiss, Act, Record, RecordRefused, Raises, AppendRefused,
           CommitFails, Dies, Abandon, Ends, history, vars
  <2>4. QED  BY <2>1, <2>2, <2>3
<1>5. QED  BY <1>1, <1>2, <1>3, <1>4

\* A retried append does not write twice, although a retry finds what its connection has
\* not committed.
THEOREM RetriedAppends == Spec => []OneRowPerKey
<1>1. Init => OneRow
  BY DEF Init, OneRow, RoundTripped, Keys, Committed
<1>2. TypeOK /\ OneOpen /\ OneRow /\ [Next]_vars => OneRow'
  BY OneRowStep
<1>3. TypeOK /\ OneOpen /\ OneRow => OneRowPerKey
  <2> SUFFICES ASSUME TypeOK, OneOpen, OneRow, NEW k \in AppendKeys
               PROVE  /\ checkpoint[k] \in {None, row[k]}
                      /\ \A w \in InHand(k) : result[w] = row[k]
                      /\ \A a \in returned : a.key = k => a.value = row[k]
    BY DEF OneRowPerKey
  <2>1. checkpoint[k] \in {None, row[k]}
    BY CommittedInDraft DEF OneRow, Keys
  <2>2. QED  BY <2>1 DEF OneRow, InHand
<1>4. QED  BY <1>1, <1>2, <1>3, Typing, OneOpenInvariant, PTL DEF Spec

---------------------------------------------------------------------------
(* Every run of an action is accounted for.                                *)

\* A process that takes a result of key k in hand, or lets go of one.
LEMMA InHandCount ==
  ASSUME NEW k, NEW w
  PROVE  /\ Cardinality(InHand(k)) \in Nat
         /\ w \notin InHand(k) => Cardinality(InHand(k) \cup {w}) = Cardinality(InHand(k)) + 1
         /\ w \in InHand(k) => Cardinality(InHand(k) \ {w}) = Cardinality(InHand(k)) - 1
<1>1. InHand(k) \in SUBSET Workers /\ IsFiniteSet(Workers)
  BY ResumeAssumption DEF InHand
<1>2. IsFiniteSet(InHand(k))
  BY <1>1, FS_Subset
<1>3. QED  BY <1>2, FS_CardinalityType, FS_AddElement, FS_RemoveElement

\* How often the action of k has run, by what became of each run.
RecordedIn(contents, k) == IF contents.checkpoint[k] = None THEN 0 ELSE 1
Accounted(k) == effects[k] = Cardinality(InHand(k)) + wasted[k] + RecordedIn(draft, k)

\* A step that moves no result and records nothing keeps the account of k.
LEMMA NothingMoves ==
  ASSUME NEW k \in Keys, Accounted(k), InHand(k)' = InHand(k),
         effects'[k] = effects[k], wasted'[k] = wasted[k], draft'.checkpoint[k] = draft.checkpoint[k]
  PROVE  Accounted(k)'
BY DEF Accounted, RecordedIn

\* A call that ends: what it held is in hand no more.
LEMMA LetGo ==
  ASSUME TypeOK, NEW k, NEW w \in Workers, NEW label, label # "record", pc' = [pc EXCEPT ![w] = label],
         key' = key \/ key' = [key EXCEPT ![w] = None]
  PROVE  InHand(k)' = InHand(k) \ {w}
BY DEF TypeOK, InHand

\* A result in hand that is recorded, or wasted, leaves the sum as it is.
LEMMA HandedOn ==
  ASSUME TypeOK, NEW k \in Keys, Accounted(k), NEW w \in Workers, w \in InHand(k),
         InHand(k)' = InHand(k) \ {w}, effects'[k] = effects[k],
         \/ wasted'[k] = wasted[k] + 1 /\ draft'.checkpoint[k] = draft.checkpoint[k]
         \/ wasted'[k] = wasted[k] /\ draft.checkpoint[k] = None /\ draft'.checkpoint[k] # None
  PROVE  Accounted(k)'
<1>1. Cardinality(InHand(k)') = Cardinality(InHand(k)) - 1 /\ Cardinality(InHand(k)) \in Nat
  BY InHandCount
<1>2. wasted[k] \in Nat
  BY DEF TypeOK
<1>3. QED  BY <1>1, <1>2 DEF Accounted, RecordedIn

\* A commit, and a statement that fails, leave in the draft what was there.
LEMMA SameDraft ==
  ASSUME OneOpen, NEW w \in Workers, NEW k
  PROVE  /\ UNCHANGED tables => draft'.checkpoint[k] = draft.checkpoint[k]
         /\ CommitAfterSelect(w) => draft'.checkpoint[k] = draft.checkpoint[k]
         /\ CanWrite(w) /\ Leave(w, Sees(w)) => draft'.checkpoint[k] = draft.checkpoint[k]
<1>1. CanWrite(w) => Sees(w) = draft
  BY DEF OneOpen, CanWrite, Sees
<1>2. QED  BY <1>1, TablesAfter DEF tables, Leave

LEMMA AccountedStep ==
  ASSUME TypeOK, OneOpen, NEW k \in Keys, Accounted(k), [Next]_vars
  PROVE  Accounted(k)'
<1> USE ResumeAssumption
<1>a. /\ pc \in [Workers -> {"idle", "load", "act", "record", "return"}]
      /\ key \in [Workers -> Keys \cup {None}]
      /\ effects \in [Keys -> Nat] /\ wasted \in [Keys -> Nat]
      /\ \A w \in Workers : pc[w] # "idle" => key[w] \in Keys
  BY DEF TypeOK
\* The call of w ends, and wastes what it has in hand: nothing, or the result of one key.
<1>b. ASSUME NEW w \in Workers, Abandon(w), Waste(Held(w)), draft'.checkpoint[k] = draft.checkpoint[k]
      PROVE  Accounted(k)'
  <2>1. InHand(k)' = InHand(k) \ {w} /\ effects' = effects
    BY <1>b, LetGo DEF Abandon, Goto
  <2>2. CASE w \in InHand(k)
    <3>1. wasted'[k] = wasted[k] + 1
      BY <1>b, <2>2 DEF Waste, Held, InHand
    <3>2. QED  BY <1>b, <2>1, <2>2, <3>1, HandedOn
  <2>3. CASE w \notin InHand(k)
    <3>1. wasted'[k] = wasted[k]
      BY <1>b, <2>3 DEF Waste, Held, InHand
    <3>2. QED  BY <1>b, <2>1, <2>3, <3>1, NothingMoves
  <2>4. QED  BY <2>2, <2>3
<1>1. ASSUME NEW w \in Workers, NEW l \in Keys, Call(w, l) PROVE Accounted(k)'
  BY <1>1, <1>a, SameDraft, NothingMoves DEF Call, Goto, InHand, history
<1>2. ASSUME NEW w \in Workers, LoadHit(w) \/ LoadMiss(w) PROVE Accounted(k)'
  <2>1. InHand(k)' = InHand(k)
    BY <1>2, <1>a DEF LoadHit, LoadMiss, Goto, InHand
  <2>2. draft'.checkpoint[k] = draft.checkpoint[k]
    BY <1>2, SameDraft DEF LoadHit, LoadMiss
  <2>3. QED  BY <1>2, <2>1, <2>2, NothingMoves DEF LoadHit, LoadMiss, history
<1>3. ASSUME NEW w \in Workers, Act(w) PROVE Accounted(k)'
  <2>1. draft'.checkpoint[k] = draft.checkpoint[k]
    <3>1. CASE AppendInserts(w)
      <4>1. PICK v \in Values : Publish(Appended(w, v))
        BY <3>1 DEF AppendInserts
      <4>2. Appended(w, v).checkpoint = draft.checkpoint
        BY <1>3, <3>1, AppendedTyped, SeesCommitted DEF Act, AppendInserts
      <4>3. QED  BY <4>1, <4>2 DEF Publish
    <3>2. QED  BY <1>3, <3>1, SameDraft DEF Act, Paid, AppendFinds
  <2>2. /\ pc' = [pc EXCEPT ![w] = "record"] /\ pc[w] = "act" /\ key' = key /\ wasted' = wasted
        /\ effects' = [effects EXCEPT ![key[w]] = @ + 1]
    BY <1>3 DEF Act, Goto
  <2>3. CASE key[w] # k
    <3>1. InHand(k)' = InHand(k) /\ effects'[k] = effects[k]
      BY <1>a, <2>2, <2>3 DEF InHand
    <3>2. QED  BY <2>1, <2>2, <3>1, NothingMoves
  <2>4. CASE key[w] = k
    <3>1. w \notin InHand(k) /\ InHand(k)' = InHand(k) \cup {w}
      BY <1>a, <2>2, <2>4 DEF InHand
    <3>2. effects'[k] = effects[k] + 1 /\ effects[k] \in Nat /\ wasted[k] \in Nat
      BY <1>a, <2>2, <2>4
    <3>3. Cardinality(InHand(k)') = Cardinality(InHand(k)) + 1 /\ Cardinality(InHand(k)) \in Nat
      BY <3>1, InHandCount
    <3>4. QED  BY <2>1, <2>2, <3>2, <3>3 DEF Accounted, RecordedIn
  <2>5. QED  BY <2>3, <2>4
\* A result that is inserted, committed or not.
<1>c. ASSUME NEW w \in Workers, pc[w] = "record", CanWrite(w), Recorded(w) = None, NEW label, label # "record",
             pc' = [pc EXCEPT ![w] = label], key' = key \/ key' = [key EXCEPT ![w] = None],
             UNCHANGED <<effects, wasted>>, draft' = Inserted(w)
      PROVE  Accounted(k)'
  <2>1. InHand(k)' = InHand(k) \ {w}
    BY <1>c, LetGo
  <2>2. /\ draft'.checkpoint = [draft.checkpoint EXCEPT ![key[w]] = Json[result[w]]]
        /\ draft.checkpoint[key[w]] = None /\ Json[result[w]] # None
    BY <1>c, InsertedTyped, SeesCommitted DEF Recorded
  <2>3. draft.checkpoint \in [Keys -> Values \cup {None}]
    BY TablesTyped
  <2>4. CASE key[w] = k
    <3>1. w \in InHand(k) /\ draft.checkpoint[k] = None /\ draft'.checkpoint[k] # None
      BY <1>c, <2>2, <2>3, <2>4 DEF InHand
    <3>2. QED  BY <1>c, <2>1, <3>1, HandedOn
  <2>5. CASE key[w] # k
    <3>1. w \notin InHand(k) /\ draft'.checkpoint[k] = draft.checkpoint[k]
      BY <2>2, <2>3, <2>5 DEF InHand
    <3>2. QED  BY <1>c, <2>1, <3>1, NothingMoves
  <2>6. QED  BY <2>4, <2>5
<1>4. ASSUME NEW w \in Workers, Record(w) PROVE Accounted(k)'
  BY <1>4, <1>c DEF Record, Publish, Goto, history
<1>5. ASSUME NEW w \in Workers, Return(w) PROVE Accounted(k)'
  <2>1. InHand(k)' = InHand(k)
    BY <1>5, <1>a DEF Return, Goto, InHand
  <2>2. QED  BY <1>5, <2>1, SameDraft, NothingMoves DEF Return
<1>6. ASSUME NEW w \in Workers, RecordRefused(w) \/ Raises(w) PROVE Accounted(k)'
  <2>1. draft'.checkpoint[k] = draft.checkpoint[k]
    BY <1>6, SameDraft DEF RecordRefused, Raises
  <2>2. QED  BY <1>6, <1>b, <2>1 DEF RecordRefused, Raises
<1>7. ASSUME NEW w \in Workers, AppendRefused(w) PROVE Accounted(k)'
  <2>1. draft'.checkpoint[k] = draft.checkpoint[k] /\ wasted' = wasted /\ effects' = effects
    BY <1>7, SameDraft DEF AppendRefused, Abandon
  <2>2. InHand(k)' = InHand(k)
    BY <1>7, <1>a DEF AppendRefused, Abandon, Goto, InHand
  <2>3. QED  BY <2>1, <2>2, NothingMoves
<1>8. ASSUME NEW w \in Workers, CommitFails(w) PROVE Accounted(k)'
  <2>1. UNCHANGED <<effects, wasted>> /\ pc' = [pc EXCEPT ![w] = "idle"] /\ key' = [key EXCEPT ![w] = None]
    BY <1>8 DEF CommitFails, Abandon, Goto
  <2>2. CASE pc[w] = "record" /\ Recorded(w) = None /\ Leave(w, Inserted(w))
    <3>1. draft' = Inserted(w) /\ CanWrite(w)
      BY <1>8, <2>2 DEF Leave, CommitFails
    <3>2. QED  BY <1>c, <2>1, <2>2, <3>1
  <2>3. CASE pc[w] = "act" /\ key[w] \in AppendKeys /\ \E v \in Values : Leave(w, Appended(w, v))
    <3>1. PICK v \in Values : Leave(w, Appended(w, v))
      BY <2>3
    <3>2. draft'.checkpoint = draft.checkpoint
      <4>1. Appended(w, v).checkpoint = Sees(w).checkpoint
        BY <2>3, AppendedTyped
      <4>2. Sees(w) = draft
        BY <1>8, <2>3, SeesCommitted DEF CommitFails
      <4>3. QED  BY <3>1, <4>1, <4>2 DEF Leave
    <3>3. InHand(k)' = InHand(k)
      BY <1>a, <2>1, <2>3 DEF InHand
    <3>4. QED  BY <2>1, <3>2, <3>3, NothingMoves
  <2>4. QED  BY <1>8, <2>2, <2>3 DEF CommitFails
\* A connection ends, with a row that it has not committed, or without.
<1>d. ASSUME NEW w \in Workers, holder = w, Rollback(w), Waste(Uncommitted(w)), InHand(k)' = InHand(k),
             effects' = effects
      PROVE  Accounted(k)'
  <2>1. draft' = Committed /\ Sees(w) = draft
    BY <1>d, TablesAfter DEF Sees
  <2>2. checkpoint[k] # None => draft.checkpoint[k] = checkpoint[k]
    BY CommittedInDraft
  <2>3. CASE draft.checkpoint[k] = checkpoint[k]
    <3>1. wasted'[k] = wasted[k] /\ draft'.checkpoint[k] = draft.checkpoint[k]
      BY <1>d, <2>1, <2>3 DEF Waste, Uncommitted, Committed
    <3>2. QED  BY <1>d, <3>1, NothingMoves
  <2>4. CASE draft.checkpoint[k] # checkpoint[k]
    <3>1. wasted'[k] = wasted[k] + 1 /\ draft'.checkpoint[k] = None /\ draft.checkpoint[k] # None
      BY <1>d, <2>1, <2>2, <2>4 DEF Waste, Uncommitted, Committed
    <3>2. Cardinality(InHand(k)) \in Nat /\ wasted[k] \in Nat
      BY <1>a, InHandCount
    <3>3. QED  BY <1>d, <3>1, <3>2 DEF Accounted, RecordedIn
  <2>5. QED  BY <2>3, <2>4
<1>9. ASSUME NEW w \in Workers, Dies(w) PROVE Accounted(k)'
  <2>1. CASE holder = w
    <3>1. pc[w] = "load" /\ Held(w) = {}
      BY <1>9, <2>1 DEF Dies, OneOpen, Held
    <3>2. InHand(k)' = InHand(k)
      BY <1>9, <1>a, <3>1 DEF Dies, Abandon, Goto, InHand
    <3>3. Held(w) \cup Uncommitted(w) = Uncommitted(w)
      BY <3>1
    <3>4. QED  BY <1>9, <1>d, <2>1, <3>2, <3>3 DEF Dies, Abandon
  <2>2. CASE holder # w
    <3>1. Uncommitted(w) = {}
      BY <2>2 DEF Uncommitted, Sees, Committed
    <3>2. Held(w) \cup Uncommitted(w) = Held(w)
      BY <3>1
    <3>3. draft' = draft
      BY <1>9, <2>2, TablesAfter DEF Dies
    <3>4. QED  BY <1>9, <1>b, <3>2, <3>3 DEF Dies
  <2>3. QED  BY <2>1, <2>2
<1>10. ASSUME NEW w \in Workers, Ends(w) PROVE Accounted(k)'
  BY <1>10, <1>d DEF Ends, InHand, call
<1>11. CASE UNCHANGED vars
  BY <1>11, NothingMoves DEF vars, tables, call, history, InHand
<1>12. QED
  BY <1>1, <1>2, <1>3, <1>4, <1>5, <1>6, <1>7, <1>8, <1>9, <1>10, <1>11 DEF Next, Step, Fault

\* A run of an action is recorded, if only on a connection whose commit failed, in hand,
\* or was lost in the window before its checkpoint: without a fault or a rival, it runs
\* once.
THEOREM RunsAccounted == Spec => []EffectsAccounted
<1>1. Init => EffectsAccounted
  <2> SUFFICES ASSUME Init, NEW k \in Keys PROVE Accounted(k)
    BY DEF EffectsAccounted, Accounted, RecordedIn
  <2>1. InHand(k) = {}
    BY DEF Init, InHand
  <2>2. QED  BY <2>1, FS_EmptySet DEF Init, Accounted, RecordedIn, Committed
<1>2. TypeOK /\ OneOpen /\ EffectsAccounted /\ [Next]_vars => EffectsAccounted'
  <2> SUFFICES ASSUME TypeOK, OneOpen, EffectsAccounted, [Next]_vars, NEW k \in Keys PROVE Accounted(k)'
    BY DEF EffectsAccounted, Accounted, RecordedIn
  <2>1. Accounted(k)
    BY DEF EffectsAccounted, Accounted, RecordedIn
  <2>2. QED  BY <2>1, AccountedStep
<1>3. QED  BY <1>1, <1>2, Typing, OneOpenInvariant, PTL DEF Spec
====
