---------------------------- MODULE Engine_proofs ----------------------------
(***************************************************************************)
(* Proofs about Engine, for every set of solutions, every bound and both   *)
(* kinds of adapter: what the scan of the output yields is what was        *)
(* printed, and UNSAT is answered only of an engine that printed no        *)
(* solution and said that there is none.                                   *)
(* Then about FailureMemory, which keeps what was found UNSAT, for all     *)
(* specs and envelopes and any number of them.                             *)
(*                                                                         *)
(* The scans are folds over an output of any length; what they compute     *)
(* follows by induction over their steps, which is derived here from the   *)
(* well-foundedness of < on Nat.                                           *)
(***************************************************************************)
EXTENDS Engine, FailureMemory, WellFoundedInduction, SequenceTheorems, TLAPS

\* An RLE is a sequence of typed lines, and its lines are no markers.
LEMMA RLETyped ==
  ASSUME NEW p \in Patterns
  PROVE  RLE(p) \in Seq(SolutionLines)
<1> DEFINE Part == IF p \in Wrapped THEN <<Line("part", p)>> ELSE << >>
<1>1. /\ <<Line("header", p)>> \in Seq(SolutionLines)
      /\ <<Line("last", p)>> \in Seq(SolutionLines)
      /\ <<Line("part", p)>> \in Seq(SolutionLines)
  BY DEF Line, SolutionLines
<1>2. Part \in Seq(SolutionLines)
  BY <1>1
<1> HIDE DEF Part
<1>3. <<Line("header", p)>> \o Part \o <<Line("last", p)>> \in Seq(SolutionLines)
  BY <1>1, <1>2
<1> QED
  BY <1>3 DEF RLE, Part

\* The outcome of a finished run is one of four, whatever the output was.
LEMMA OutcomeTyped ==
  ASSUME NEW lines, NEW complaints
  PROVE  Outcome(lines, complaints) \in {"FOUND", "UNSAT", "TIMEOUT", "ERROR"}
  BY EngineAssumption DEF Outcome, EngineAssumption

\* What had been read when the clock struck is a typed prefix of the output.
LEMMA CapturedTyped ==
  ASSUME NEW s \in Seq(Lines), NEW k \in 0 .. Len(s)
  PROVE  SubSeq(s, 1, k) \in Seq(Lines)
  OBVIOUS

\* A line that belongs to no solution.
LEMMA OtherTyped ==
  ASSUME NEW kind \in {"junk", "bytes", "marker"}
  PROVE  Line(kind, "other") \in Lines /\ Line(kind, "other").kind \notin {"header", "last"}
  BY DEF Lines, Markers, Line

\* run_engine and the sandboxed process keep every variable in its type.
THEOREM Typing == Spec => []TypeOK
<1>1. Init => TypeOK
  <2> SUFFICES ASSUME Init
               PROVE  TypeOK
    OBVIOUS
  <2>1. todo \in Seq(SolutionLines) /\ out \in Seq(Lines) /\ printed \in Seq(Patterns)
    BY DEF Init
  <2>2. << >> \in Seq(Lines)
    OBVIOUS
  <2>3. raw \in [outcome : {"NONE", "FOUND", "UNSAT", "TIMEOUT", "ERROR"}, lines : Seq(Lines)]
    BY <2>2 DEF Init, Nothing
  <2> QED
    BY <2>1, <2>3 DEF Init, TypeOK
<1>2. TypeOK /\ [Next]_vars => TypeOK'
  <2> SUFFICES ASSUME TypeOK, [Next]_vars
               PROVE  TypeOK'
    OBVIOUS
  <2> USE DEF TypeOK
  <2>1. CASE Finds
    BY <2>1, RLETyped DEF Finds
  <2>2. CASE PrintsSolution
    <3>1. Head(todo) \in SolutionLines /\ Tail(todo) \in Seq(SolutionLines)
      BY <2>2 DEF PrintsSolution
    <3>2. Head(todo) \in Lines /\ Head(todo).of \in Patterns
      BY <3>1 DEF Lines, SolutionLines
    <3> QED
      BY <2>2, <3>1, <3>2 DEF PrintsSolution, Emit
  <2>3. CASE PrintsOther
    BY <2>3, OtherTyped DEF PrintsOther, Emit
  <2>11. CASE Complains
    <3>1. \A kind \in {"bytes", "marker"} : Line(kind, "other") \in Markers \cup {Line("bytes", "other")}
      BY DEF Markers
    <3> QED
      BY <2>11, <3>1 DEF Complains
  <2>4. CASE ProvesNone
    <3>1. Line("marker", "proof") \in Markers /\ Markers \subseteq Lines
      BY DEF Markers, Lines
    <3>2. \/ out' = Append(out, Line("marker", "proof")) /\ err' = err
          \/ out' = out /\ err' = err \cup {Line("marker", "proof")}
      BY <2>4 DEF ProvesNone, Emit
    <3>3. out' \in Seq(Lines) /\ err' \subseteq Markers \cup {Line("bytes", "other")}
      <4>1. CASE out' = Append(out, Line("marker", "proof")) /\ err' = err
        BY <3>1, <4>1
      <4>2. CASE out' = out /\ err' = err \cup {Line("marker", "proof")}
        BY <3>1, <4>2
      <4> QED
        BY <3>2, <4>1, <4>2
    <3>4. /\ pc' = pc /\ todo' = todo /\ printed' = printed /\ raw' = raw
          /\ child' = "exited" /\ proved' = TRUE
      BY <2>4 DEF ProvesNone
    <3> QED
      BY <3>3, <3>4
  <2>5. CASE Stops("exited") \/ Stops("crashed") \/ Stops("cpu")
    BY <2>5 DEF Stops
  <2>6. CASE Unavailable
    BY <2>6 DEF Unavailable, Answer, engine
  <2>7. CASE Available("which", "probe") \/ Available("probe", "spawn") \/ Spawn
    BY <2>7 DEF Available, Spawn, engine
  <2>12. CASE LimitsRefused
    BY <2>12 DEF LimitsRefused, Raises, engine
  <2>8. CASE ChildEnds
    BY <2>8, OutcomeTyped DEF ChildEnds, Answer, Raises, engine
  <2>9. CASE WallTimeout
    BY <2>9, CapturedTyped DEF WallTimeout, Answer, Raises, engine
  <2>10. CASE UNCHANGED vars
    BY <2>10 DEF vars
  <2> QED
    BY <2>1, <2>2, <2>3, <2>4, <2>5, <2>6, <2>7, <2>8, <2>9, <2>10, <2>11, <2>12
    DEF Next, Child, Adapter
<1> QED
  BY <1>1, <1>2, PTL DEF Spec

---------------------------------------------------------------------------
(* Before the engine is started there is neither output nor an answer, and *)
(* while it is waited for the wall clock has not struck.                   *)

StartInv ==
  /\ TypeOK
  /\ pc \in {"which", "probe", "spawn"} => child = "none" /\ out = << >> /\ raw = Nothing
  /\ pc = "wait" => child \in {"searching", "exited", "crashed", "cpu"}

LEMMA StartInvariant == Spec => []StartInv
<1>1. Init /\ TypeOK => StartInv
  BY DEF Init, StartInv
<1>2. StartInv /\ TypeOK' /\ [Next]_vars => StartInv'
  <2> SUFFICES ASSUME StartInv, TypeOK', [Next]_vars
               PROVE  StartInv'
    OBVIOUS
  <2> USE DEF StartInv
  <2>1. CASE Finds \/ PrintsSolution \/ PrintsOther \/ Complains
    <3>1. child = "searching" /\ child' = child /\ pc' = pc
      BY <2>1 DEF Finds, PrintsSolution, PrintsOther, Complains, Emit
    <3> QED
      BY <3>1
  <2>2. CASE ProvesNone
    <3>1. child = "searching" /\ child' = "exited" /\ pc' = pc
      BY <2>2 DEF ProvesNone, Emit
    <3> QED
      BY <3>1
  <2>3. CASE Stops("exited") \/ Stops("crashed") \/ Stops("cpu")
    BY <2>3 DEF Stops
  <2>4. CASE Unavailable \/ LimitsRefused
    BY <2>4 DEF Unavailable, LimitsRefused, Answer, Raises
  <2>5. CASE Available("which", "probe") \/ Available("probe", "spawn") \/ Spawn
    BY <2>5 DEF Available, Spawn, engine
  <2>6. CASE ChildEnds \/ WallTimeout
    BY <2>6 DEF ChildEnds, WallTimeout, Answer, Raises
  <2>7. CASE UNCHANGED vars
    BY <2>7 DEF vars
  <2> QED
    BY <2>1, <2>2, <2>3, <2>4, <2>5, <2>6, <2>7 DEF Next, Child, Adapter
<1> QED
  BY <1>1, <1>2, Typing, PTL DEF Spec

---------------------------------------------------------------------------
(* The scans, step by step.                                                *)

LEMMA LeastNat ==
  ASSUME NEW T, T \subseteq Nat, T # {}
  PROVE  \E x \in T : \A y \in T : x <= y
<1> DEFINE R == {p \in Nat \X Nat : p[1] < p[2]}
<1>1. IsWellFoundedOn(R, Nat)
  <2>1. R = OpToRel(<, Nat)
    BY DEF OpToRel
  <2> QED
    BY <2>1, NatLessThanWellFounded
<1>2. ASSUME NEW x \in T, NEW y \in T, ~(<<y, x>> \in R)
      PROVE  x <= y
  <2>1. <<y, x>> \in Nat \X Nat /\ x \in Nat /\ y \in Nat
    OBVIOUS
  <2>2. ~(y < x)
    BY <1>2, <2>1
  <2> QED
    BY <2>1, <2>2
<1> HIDE DEF R
<1>3. \E x \in T : \A y \in T : ~(<<y, x>> \in R)
  BY <1>1, WFMin
<1> QED
  BY <1>2, <1>3

LEMMA Induction ==
  ASSUME NEW S, 0 \in S, \A n \in Nat : n \in S => n + 1 \in S
  PROVE  Nat \subseteq S
<1> SUFFICES ASSUME Nat \ S # {}
             PROVE  FALSE
  OBVIOUS
<1>1. PICK n \in Nat \ S : \A m \in Nat \ S : n <= m
  BY LeastNat
<1>2. n - 1 \in Nat /\ n - 1 \in S
  BY <1>1
<1> QED
  BY <1>1, <1>2

LEMMA BoundedInduction ==
  ASSUME NEW k \in Nat, NEW S, 0 \in S, \A i \in 1 .. k : i - 1 \in S => i \in S
  PROVE  0 .. k \subseteq S
<1> DEFINE T == {n \in Nat : n <= k => n \in S}
<1>1. 0 \in T
  OBVIOUS
<1>2. ASSUME NEW n \in Nat, n \in T
      PROVE  n + 1 \in T
  <2> SUFFICES ASSUME n + 1 <= k
               PROVE  n + 1 \in S
    OBVIOUS
  <2>1. n + 1 \in 1 .. k /\ (n + 1) - 1 = n /\ n \in S
    BY <1>2
  <2> QED
    BY <2>1
<1> HIDE DEF T
<1>3. Nat \subseteq T
  BY <1>1, <1>2, Induction
<1> QED
  BY <1>3 DEF T

\* f starts at a and takes k steps, the i-th of which is F[i].
Follows(f, a, k, F) == f[0] = a /\ \A i \in 1 .. k : f[i] = F[i][f[i - 1]]

LEMMA Recursion ==
  ASSUME NEW D, NEW a \in D, NEW k \in Nat, NEW F \in [1 .. k -> [D -> D]]
  PROVE  \E f \in [0 .. k -> D] : Follows(f, a, k, F)
<1> USE DEF Follows
<1> DEFINE Upto(n) == \E f \in [0 .. n -> D] : f[0] = a /\ \A i \in 1 .. n : f[i] = F[i][f[i - 1]]
           S == {n \in Nat : n <= k => Upto(n)}
<1>1. 0 \in S
  <2> DEFINE f == [i \in 0 .. 0 |-> a]
  <2>1. f \in [0 .. 0 -> D] /\ f[0] = a /\ \A i \in 1 .. 0 : f[i] = F[i][f[i - 1]]
    OBVIOUS
  <2> HIDE DEF f
  <2>2. Upto(0)
    BY <2>1
  <2> QED
    BY <2>2
<1>2. ASSUME NEW n \in Nat, n \in S
      PROVE  n + 1 \in S
  <2> SUFFICES ASSUME n + 1 <= k
               PROVE  Upto(n + 1)
    OBVIOUS
  <2>1. PICK f \in [0 .. n -> D] : f[0] = a /\ \A i \in 1 .. n : f[i] = F[i][f[i - 1]]
    BY <1>2
  <2> DEFINE g == [i \in 0 .. n + 1 |-> IF i = n + 1 THEN F[n + 1][f[n]] ELSE f[i]]
  <2>2. g \in [0 .. n + 1 -> D]
    BY <2>1
  <2>3. g[0] = a
    BY <2>1
  <2>4. ASSUME NEW i \in 1 .. n + 1
        PROVE  g[i] = F[i][g[i - 1]]
    <3>1. i - 1 \in 0 .. n /\ i - 1 # n + 1 /\ i \in 0 .. n + 1
      OBVIOUS
    <3>2. g[i - 1] = f[i - 1]
      BY <3>1
    <3>3. CASE i = n + 1
      BY <3>1, <3>2, <3>3
    <3>4. CASE i # n + 1
      BY <2>1, <3>1, <3>2, <3>4
    <3> QED
      BY <3>3, <3>4
  <2> QED
    BY <2>2, <2>3, <2>4
<1> HIDE DEF S
<1>3. Nat \subseteq S
  BY <1>1, <1>2, Induction
<1> QED
  BY <1>3 DEF S

Scans == [buffer : Seq(Lines), blocks : Seq(Seq(Lines))]

Start == [buffer |-> << >>, blocks |-> << >>]

LEMMA ScanLineIs ==
  ASSUME NEW s \in Scans, NEW l \in Lines
  PROVE  /\ ScanLine(s, l) \in Scans
         /\ l.kind = "header" => ScanLine(s, l) = [buffer |-> Append(s.buffer, l), blocks |-> s.blocks]
         /\ l.kind = "last" =>
              ScanLine(s, l) = [buffer |-> << >>, blocks |-> Append(s.blocks, Append(s.buffer, l))]
         /\ l.kind \notin {"header", "last"} => ScanLine(s, l) = [buffer |-> << >>, blocks |-> s.blocks]
<1>1. s = [buffer |-> s.buffer, blocks |-> s.blocks] /\ s.buffer \in Seq(Lines) /\ s.blocks \in Seq(Seq(Lines))
  BY DEF Scans
<1>2. << >> \in Seq(Lines) /\ Append(s.buffer, l) \in Seq(Lines)
  BY <1>1
<1>3. Append(s.blocks, Append(s.buffer, l)) \in Seq(Seq(Lines))
  BY <1>1, <1>2
<1>4. l.kind = "header" => ScanLine(s, l) = [buffer |-> Append(s.buffer, l), blocks |-> s.blocks]
  BY <1>1 DEF ScanLine
<1>5. l.kind = "last" =>
        ScanLine(s, l) = [buffer |-> << >>, blocks |-> Append(s.blocks, Append(s.buffer, l))]
  BY DEF ScanLine
<1>6. l.kind \notin {"header", "last"} => ScanLine(s, l) = [buffer |-> << >>, blocks |-> s.blocks]
  BY <1>1 DEF ScanLine
<1>7. ScanLine(s, l) \in Scans
  <2> DEFINE Nil == << >>
  <2>0. \A b \in Seq(Lines), c \in Seq(Seq(Lines)) : [buffer |-> b, blocks |-> c] \in Scans
    BY DEF Scans
  <2>4. Nil \in Seq(Lines)
    OBVIOUS
  <2>5. /\ l.kind = "last" =>
             ScanLine(s, l) = [buffer |-> Nil, blocks |-> Append(s.blocks, Append(s.buffer, l))]
        /\ l.kind \notin {"header", "last"} => ScanLine(s, l) = [buffer |-> Nil, blocks |-> s.blocks]
    BY <1>5, <1>6
  <2> HIDE DEF Nil
  <2>1. CASE l.kind = "header"
    BY <1>1, <1>2, <1>4, <2>0, <2>1
  <2>2. CASE l.kind = "last"
    BY <1>3, <2>0, <2>2, <2>4, <2>5
  <2>3. CASE l.kind \notin {"header", "last"}
    BY <1>1, <2>0, <2>3, <2>4, <2>5
  <2> QED
    BY <2>1, <2>2, <2>3
<1> QED
  BY <1>4, <1>5, <1>6, <1>7

LEMMA ScanSteps ==
  ASSUME NEW lines \in Seq(Lines)
  PROVE  \E f \in [0 .. Len(lines) -> Scans] :
           /\ f[0] = Start
           /\ \A i \in 1 .. Len(lines) : f[i] = ScanLine(f[i - 1], lines[i])
           /\ Scan(lines) = f[Len(lines)]
<1> DEFINE k == Len(lines)
           F == [i \in 1 .. k |-> [s \in Scans |-> ScanLine(s, lines[i])]]
           upTo[i \in 0 .. k] ==
             IF i = 0 THEN [buffer |-> << >>, blocks |-> << >>] ELSE ScanLine(upTo[i - 1], lines[i])
<1>1. k \in Nat /\ \A i \in 1 .. k : lines[i] \in Lines
  OBVIOUS
<1>2. Start \in Scans
  <2>1. << >> \in Seq(Lines) /\ << >> \in Seq(Seq(Lines))
    OBVIOUS
  <2> QED
    BY <2>1 DEF Start, Scans
<1>3. F \in [1 .. k -> [Scans -> Scans]]
  BY <1>1, ScanLineIs
<1> HIDE DEF F, k, upTo
<1>4. PICK f \in [0 .. k -> Scans] : Follows(f, Start, k, F)
  BY <1>1, <1>2, <1>3, Recursion
<1>5. \A i \in 1 .. k : f[i - 1] \in Scans /\ f[i] = ScanLine(f[i - 1], lines[i])
  BY <1>1, <1>4 DEF F, Follows
<1>6. f = [i \in 0 .. k |->
             IF i = 0 THEN [buffer |-> << >>, blocks |-> << >>] ELSE ScanLine(f[i - 1], lines[i])]
  BY <1>1, <1>4, <1>5 DEF Follows, Start
<1>7. upTo = [i \in 0 .. k |->
                IF i = 0 THEN [buffer |-> << >>, blocks |-> << >>]
                ELSE ScanLine(upTo[i - 1], lines[i])]
  BY <1>6 DEF upTo
<1>8. Scan(lines) = upTo[k]
  BY DEF Scan, k, upTo
<1> DEFINE S == {i \in 0 .. k : upTo[i] \in Scans}
<1>9. 0 \in S
  BY <1>1, <1>2, <1>7 DEF Start
<1>10. ASSUME NEW i \in 1 .. k, i - 1 \in S
       PROVE  i \in S
  <2>1. upTo[i] = ScanLine(upTo[i - 1], lines[i])
    BY <1>1, <1>7
  <2> QED
    BY <1>1, <1>10, <2>1, ScanLineIs
<1> HIDE DEF S
<1>11. 0 .. k \subseteq S
  BY <1>1, <1>9, <1>10, BoundedInduction
<1>12. upTo \in [0 .. k -> Scans]
  BY <1>1, <1>7, <1>11 DEF S
<1>13. upTo[0] = Start /\ \A i \in 1 .. k : upTo[i] = ScanLine(upTo[i - 1], lines[i])
  BY <1>1, <1>7 DEF Start
<1> QED
  BY <1>8, <1>12, <1>13 DEF k

\* One line more is scanned after all that come before it.
LEMMA ScanAppend ==
  ASSUME NEW lines \in Seq(Lines), NEW l \in Lines
  PROVE  /\ Scan(lines) \in Scans
         /\ Scan(Append(lines, l)) = ScanLine(Scan(lines), l)
<1> DEFINE k == Len(lines)
           more == Append(lines, l)
<1>1. k \in Nat /\ more \in Seq(Lines) /\ Len(more) = k + 1 /\ more[k + 1] = l
      /\ \A i \in 1 .. k : more[i] = lines[i]
  OBVIOUS
<1> HIDE DEF more, k
<1>2. PICK f \in [0 .. k -> Scans] :
        /\ f[0] = Start
        /\ \A i \in 1 .. k : f[i] = ScanLine(f[i - 1], lines[i])
        /\ Scan(lines) = f[k]
  BY ScanSteps DEF k
<1>3. PICK g \in [0 .. k + 1 -> Scans] :
        /\ g[0] = Start
        /\ \A i \in 1 .. k + 1 : g[i] = ScanLine(g[i - 1], more[i])
        /\ Scan(more) = g[k + 1]
  BY <1>1, ScanSteps
<1> DEFINE S == {i \in 0 .. k : f[i] = g[i]}
<1>4. 0 \in S
  BY <1>1, <1>2, <1>3
<1>5. ASSUME NEW i \in 1 .. k, i - 1 \in S
      PROVE  i \in S
  BY <1>1, <1>2, <1>3, <1>5
<1> HIDE DEF S
<1>6. 0 .. k \subseteq S
  BY <1>1, <1>4, <1>5, BoundedInduction
<1>7. f[k] = g[k] /\ f[k] \in Scans
  BY <1>1, <1>6 DEF S
<1>8. g[k + 1] = ScanLine(g[k], l)
  BY <1>1, <1>3
<1> QED
  BY <1>2, <1>3, <1>7, <1>8 DEF more

LEMMA ScanNothing == Scan(<< >>) = Start
<1>1. << >> \in Seq(Lines) /\ Len(<< >>) = 0
  OBVIOUS
<1> QED
  BY <1>1, ScanSteps

---------------------------------------------------------------------------
(* What the scan makes of solutions.                                       *)

\* The block that the lines of p leave: a wrapped body loses all but its last line.
BlockOf(p) == IF p \in Wrapped THEN <<Line("last", p)>> ELSE RLE(p)

CandidateOf(p) == [of |-> p, whole |-> p \notin Wrapped]

LEMMA Concatenated ==
  ASSUME NEW a, NEW b, NEW c
  PROVE  /\ <<a>> \o << >> \o <<b>> = <<a, b>>
         /\ <<a>> \o <<b>> \o <<c>> = <<a, b, c>>
<1> DEFINE S == {a, b, c}
<1>1. <<a>> \in Seq(S) /\ <<b>> \in Seq(S) /\ <<c>> \in Seq(S) /\ <<a, b>> \in Seq(S)
  OBVIOUS
<1>2. <<a>> \o << >> = <<a>>
  BY <1>1, ConcatEmptySeq
<1>3. \A s, t \in Seq(S) : /\ s \o t \in Seq(S) /\ Len(s \o t) = Len(s) + Len(t)
                           /\ \A i \in 1 .. Len(s) + Len(t) :
                                (s \o t)[i] = IF i <= Len(s) THEN s[i] ELSE t[i - Len(s)]
  BY ConcatProperties
<1> HIDE DEF S
<1>4. <<a>> \o <<b>> = <<a, b>>
  <2> DEFINE u == <<a>> \o <<b>>
             v == <<a, b>>
  <2>1. u \in Seq(S) /\ Len(u) = 2 /\ u[1] = a /\ u[2] = b
    BY <1>1, <1>3
  <2>2. v \in Seq(S) /\ Len(v) = 2 /\ v[1] = a /\ v[2] = b
    BY <1>1
  <2> HIDE DEF u, v
  <2>3. \A i \in 1 .. 2 : u[i] = v[i]
    BY <2>1, <2>2
  <2>4. u = v
    BY <2>1, <2>2, <2>3, SeqEqual
  <2> QED
    BY <2>4 DEF u, v
<1>5. <<a, b>> \o <<c>> = <<a, b, c>>
  <2> DEFINE u == <<a, b>> \o <<c>>
             v == <<a, b, c>>
  <2>1. u \in Seq(S) /\ Len(u) = 3 /\ u[1] = a /\ u[2] = b /\ u[3] = c
    BY <1>1, <1>3
  <2>2. v \in Seq(S) /\ Len(v) = 3 /\ v[1] = a /\ v[2] = b /\ v[3] = c
    BY DEF S
  <2> HIDE DEF u, v
  <2>3. \A i \in 1 .. 3 : u[i] = v[i]
    BY <2>1, <2>2
  <2>4. u = v
    BY <2>1, <2>2, <2>3, SeqEqual
  <2> QED
    BY <2>4 DEF u, v
<1> QED
  BY <1>2, <1>4, <1>5

\* A block that is headers and one body line ends with that line.
LEMMA ParsedIs ==
  ASSUME NEW n \in Nat \ {0}, NEW block \in Seq(Lines), Len(block) = n,
         block[n].kind = "last", \A j \in 1 .. n - 1 : block[j].kind = "header"
  PROVE  Parsed(block) = [of |-> block[n].of,
                          whole |-> \E i \in 1 .. n : SubSeq(block, i, n) = RLE(block[n].of)]
<1> DEFINE Ends(i) == block[i].kind = "last" /\ \A j \in 1 .. i - 1 : block[j].kind = "header"
           end == CHOOSE i \in DOMAIN block : Ends(i)
<1>1. DOMAIN block = 1 .. n
  OBVIOUS
<1>2. n \in DOMAIN block /\ Ends(n)
  BY <1>1
<1>3. ASSUME NEW i \in DOMAIN block, Ends(i)
      PROVE  i = n
  BY <1>1, <1>3
<1> HIDE DEF Ends
<1>4. end = n
  BY <1>2, <1>3
<1> QED
  BY <1>4 DEF Parsed, Ends

LEMMA BlockParses ==
  ASSUME NEW p \in Patterns
  PROVE  /\ Parsed(BlockOf(p)) = CandidateOf(p)
         /\ p \notin Wrapped => RLE(p) = <<Line("header", p), Line("last", p)>>
         /\ p \in Wrapped => RLE(p) = <<Line("header", p), Line("part", p), Line("last", p)>>
<1> DEFINE h == Line("header", p)
           m == Line("part", p)
           e == Line("last", p)
           block == BlockOf(p)
<1>1. h \in Lines /\ e \in Lines /\ e.of = p /\ e.kind = "last" /\ h.kind = "header"
  BY DEF Line, Lines, SolutionLines
<1>2. CASE p \in Wrapped
  <2>1. RLE(p) = <<h, m, e>>
    BY <1>2, Concatenated DEF RLE
  <2>2. block = <<e>>
    BY <1>2 DEF BlockOf
  <2> HIDE DEF h, m, e, block
  <2>3. block \in Seq(Lines) /\ Len(block) = 1 /\ block[1] = e
    BY <1>1, <2>2
  <2>4. Parsed(block) = [of |-> p, whole |-> \E i \in 1 .. 1 : SubSeq(block, i, 1) = RLE(p)]
    BY <1>1, <2>3, ParsedIs
  <2>5. Len(RLE(p)) = 3
    BY <2>1
  <2>6. \A i \in 1 .. 1 : Len(SubSeq(block, i, 1)) = 1
    BY <2>3
  <2>7. ~ \E i \in 1 .. 1 : SubSeq(block, i, 1) = RLE(p)
    BY <2>5, <2>6
  <2>8. Parsed(block) = [of |-> p, whole |-> FALSE]
    BY <2>4, <2>7
  <2> QED
    BY <1>2, <2>1, <2>8 DEF CandidateOf, h, m, e, block
<1>3. CASE p \notin Wrapped
  <2>1. RLE(p) = <<h, e>>
    BY <1>3, Concatenated DEF RLE
  <2>2. block = <<h, e>>
    BY <1>3, <2>1 DEF BlockOf
  <2> HIDE DEF h, m, e, block
  <2>3. block \in Seq(Lines) /\ Len(block) = 2 /\ block[1] = h /\ block[2] = e
    BY <1>1, <2>2
  <2>4. \A j \in 1 .. 2 - 1 : block[j].kind = "header"
    BY <1>1, <2>3
  <2>5. block[2].kind = "last" /\ block[2].of = p /\ 2 \in Nat \ {0}
    BY <1>1, <2>3
  <2>6. Parsed(block) = [of |-> p, whole |-> \E i \in 1 .. 2 : SubSeq(block, i, 2) = RLE(p)]
    <3>1. Parsed(block) = [of |-> block[2].of,
                           whole |-> \E i \in 1 .. 2 : SubSeq(block, i, 2) = RLE(block[2].of)]
      BY <2>3, <2>4, <2>5, ParsedIs
    <3> QED
      BY <2>5, <3>1
  <2>7. SubSeq(block, 1, Len(block)) = block
    BY <2>3
  <2>8. SubSeq(block, 1, 2) = RLE(p) /\ 1 \in 1 .. 2
    BY <2>1, <2>2, <2>3, <2>7
  <2>9. Parsed(block) = [of |-> p, whole |-> TRUE]
    BY <2>6, <2>8
  <2> QED
    BY <1>3, <2>1, <2>9 DEF CandidateOf, h, e, block
<1> QED
  BY <1>2, <1>3

\* found is what the first j solutions of ps yield: each of them once, and nothing else.
Yields(found, ps, j) ==
  /\ found \in Seq({CandidateOf(p) : p \in Patterns})
  /\ \A i \in DOMAIN found : \E l \in 1 .. j : found[i] = CandidateOf(ps[l])
  /\ \A l \in 1 .. j : \E i \in DOMAIN found : found[i] = CandidateOf(ps[l])
  /\ \A h, i \in DOMAIN found : h # i => found[h] # found[i]

LEMMA AddBlockYields ==
  ASSUME NEW ps \in Seq(Patterns), NEW j \in 1 .. Len(ps), NEW found, Yields(found, ps, j - 1)
  PROVE  Yields(AddBlock(found, BlockOf(ps[j])), ps, j)
<1> DEFINE p == ps[j]
           new == CandidateOf(p)
<1>1. p \in Patterns /\ j \in Nat \ {0} /\ \A l \in 1 .. j : l \in 1 .. j - 1 \/ l = j
  OBVIOUS
<1>2. \A l \in 1 .. j - 1 : l \in 1 .. j
  BY <1>1
<1>3. j \in 1 .. j
  BY <1>1
<1>4. AddBlock(found, BlockOf(p)) = IF Unseen(found, new) THEN Append(found, new) ELSE found
  BY <1>1, BlockParses DEF AddBlock
<1>5. new \in {CandidateOf(q) : q \in Patterns}
  BY <1>1
<1> DEFINE C == {CandidateOf(q) : q \in Patterns}
           more == Append(found, new)
<1>6. found \in Seq(C)
  BY DEF Yields
<1> HIDE DEF C, new
<1>7. CASE Unseen(found, new)
  <2>1. /\ more \in Seq(C) /\ DOMAIN more = DOMAIN found \cup {Len(found) + 1}
        /\ \A i \in DOMAIN found : more[i] = found[i]
        /\ more[Len(found) + 1] = new
    BY <1>5, <1>6 DEF C
  <2>2. \A i \in DOMAIN found : found[i] # new
    BY <1>7 DEF Unseen
  <2> HIDE DEF more
  <2>3. \A i \in DOMAIN more : \E l \in 1 .. j : more[i] = CandidateOf(ps[l])
    BY <1>2, <1>3, <2>1 DEF Yields, new
  <2>4. \A l \in 1 .. j : \E i \in DOMAIN more : more[i] = CandidateOf(ps[l])
    BY <1>1, <2>1 DEF Yields, new
  <2>5. \A h, i \in DOMAIN more : h # i => more[h] # more[i]
    BY <2>1, <2>2 DEF Yields
  <2>6. Yields(more, ps, j)
    BY <2>1, <2>3, <2>4, <2>5 DEF Yields, C
  <2> QED
    BY <1>4, <1>7, <2>6 DEF more
<1>8. CASE ~Unseen(found, new)
  <2>1. PICK i \in DOMAIN found : found[i] = new
    BY <1>8 DEF Unseen
  <2>2. \A h \in DOMAIN found : \E l \in 1 .. j : found[h] = CandidateOf(ps[l])
    BY <1>2 DEF Yields
  <2>3. \A l \in 1 .. j : \E h \in DOMAIN found : found[h] = CandidateOf(ps[l])
    BY <1>1, <2>1 DEF Yields, new
  <2> QED
    BY <1>4, <1>8, <2>2, <2>3 DEF Yields
<1> QED
  BY <1>7, <1>8

\* _candidate_blocks and then parse and dedupe: each solution once, and nothing else.
LEMMA Extracted ==
  ASSUME NEW lines, NEW ps \in Seq(Patterns), NEW m \in 0 .. Len(ps),
         Blocks(lines) = [i \in 1 .. m |-> BlockOf(ps[i])]
  PROVE  Yields(ExtractPatterns(lines), ps, m)
<1> DEFINE blocks == Blocks(lines)
           Good(f, j) == Yields(f, ps, j)
           D == Seq({CandidateOf(p) : p \in Patterns})
           F == [i \in 1 .. m |-> [f \in D |-> IF Good(f, i - 1) THEN AddBlock(f, blocks[i]) ELSE << >>]]
           upTo[i \in 0 .. m] == IF i = 0 THEN << >> ELSE AddBlock(upTo[i - 1], blocks[i])
<1>1. m \in Nat /\ Len(blocks) = m /\ \A i \in 1 .. m : blocks[i] = BlockOf(ps[i])
  OBVIOUS
<1>2. \A i \in 1 .. m : i \in 1 .. Len(ps)
  OBVIOUS
<1>3. << >> \in D /\ Good(<< >>, 0)
  BY DEF Yields
<1>4. ExtractPatterns(lines) = upTo[m]
  BY <1>1 DEF ExtractPatterns
<1> HIDE DEF blocks
<1>5. ASSUME NEW i \in 1 .. m, NEW f, Good(f, i - 1)
      PROVE  Good(AddBlock(f, blocks[i]), i)
  BY <1>1, <1>2, <1>5, AddBlockYields
<1>6. \A f, j : Good(f, j) => f \in D
  BY DEF Yields
<1> HIDE DEF F, upTo, Good, D
<1>7. F \in [1 .. m -> [D -> D]]
  <2>1. \A i \in 1 .. m, f \in D : (IF Good(f, i - 1) THEN AddBlock(f, blocks[i]) ELSE << >>) \in D
    BY <1>3, <1>5, <1>6
  <2> QED
    BY <2>1 DEF F
<1>8. PICK f \in [0 .. m -> D] : Follows(f, << >>, m, F)
  BY <1>1, <1>3, <1>7, Recursion
<1>9. 0 .. m \subseteq {i \in 0 .. m : Good(f[i], i)}
  <2> DEFINE S == {i \in 0 .. m : Good(f[i], i)}
  <2>1. 0 \in S
    BY <1>1, <1>3, <1>8 DEF Follows
  <2>2. ASSUME NEW i \in 1 .. m, i - 1 \in S
        PROVE  i \in S
    <3>1. f[i] = F[i][f[i - 1]] /\ f[i - 1] \in D /\ Good(f[i - 1], i - 1) /\ i \in 0 .. m
      BY <1>1, <1>8, <2>2 DEF Follows
    <3>2. F[i] = [g \in D |-> IF Good(g, i - 1) THEN AddBlock(g, blocks[i]) ELSE << >>]
      BY DEF F
    <3>3. f[i] = AddBlock(f[i - 1], blocks[i])
      BY <3>1, <3>2
    <3> QED
      BY <1>5, <3>1, <3>3
  <2> HIDE DEF S
  <2>3. 0 .. m \subseteq S
    BY <1>1, <2>1, <2>2, BoundedInduction
  <2> QED
    BY <2>3 DEF S
<1>10. \A i \in 1 .. m : f[i] = AddBlock(f[i - 1], blocks[i])
  <2> TAKE i \in 1 .. m
  <2>1. f[i] = F[i][f[i - 1]] /\ f[i - 1] \in D /\ Good(f[i - 1], i - 1)
    BY <1>1, <1>8, <1>9 DEF Follows
  <2>2. F[i] = [g \in D |-> IF Good(g, i - 1) THEN AddBlock(g, blocks[i]) ELSE << >>]
    BY DEF F
  <2> QED
    BY <2>1, <2>2
<1>11. f = [i \in 0 .. m |-> IF i = 0 THEN << >> ELSE AddBlock(f[i - 1], blocks[i])]
  <2>1. f[0] = << >>
    BY <1>8 DEF Follows
  <2>2. \A i \in 0 .. m : i # 0 => i \in 1 .. m
    BY <1>1
  <2> QED
    BY <1>10, <2>1, <2>2
<1>12. upTo = [i \in 0 .. m |-> IF i = 0 THEN << >> ELSE AddBlock(upTo[i - 1], blocks[i])]
  BY <1>11 DEF upTo
<1> DEFINE S == {i \in 0 .. m : Good(upTo[i], i)}
<1>13. 0 \in S
  BY <1>1, <1>3, <1>12
<1>14. ASSUME NEW i \in 1 .. m, i - 1 \in S
       PROVE  i \in S
  <2>1. i \in 0 .. m /\ i # 0 /\ Good(upTo[i - 1], i - 1)
    BY <1>1, <1>14
  <2>2. upTo[i] = AddBlock(upTo[i - 1], blocks[i])
    BY <1>12, <2>1
  <2> QED
    BY <1>5, <2>1, <2>2
<1> HIDE DEF S
<1>15. 0 .. m \subseteq S
  BY <1>1, <1>13, <1>14, BoundedInduction
<1>16. m \in S
  BY <1>1, <1>15
<1> QED
  BY <1>4, <1>16 DEF S, Good

---------------------------------------------------------------------------
(* What is parsed was printed.  The buffer of the scan holds the header    *)
(* of the solution that is being printed, and nothing between two of       *)
(* them; so each solution that was printed in full is a block, in order,   *)
(* and what was captured when the clock struck is a prefix of them.        *)

\* The blocks of the first m solutions that were printed.
Solved(m) == [i \in 1 .. m |-> BlockOf(printed[i])]

BufferInv ==
  \/ todo = << >> /\ Scan(out).buffer = << >>
  \/ \E p \in Patterns :
       \/ todo = RLE(p) /\ Scan(out).buffer = << >>
       \/ /\ p \in Wrapped /\ todo = <<Line("part", p), Line("last", p)>>
          /\ Scan(out).buffer = <<Line("header", p)>>
       \/ p \in Wrapped /\ todo = <<Line("last", p)>> /\ Scan(out).buffer = << >>
       \/ p \notin Wrapped /\ todo = <<Line("last", p)>> /\ Scan(out).buffer = <<Line("header", p)>>

BlocksInv ==
  /\ Blocks(out) = Solved(Len(printed))
  /\ \A k \in 0 .. Len(out) : \E m \in 0 .. Len(printed) : Blocks(SubSeq(out, 1, k)) = Solved(m)

RawInv ==
  /\ \E k \in 0 .. Len(out) : raw.lines = SubSeq(out, 1, k)
  /\ raw.outcome = "FOUND" => ExtractPatterns(raw.lines) # << >>
  /\ child = "searching" => raw = Nothing

ScanInv == BufferInv /\ BlocksInv /\ RawInv

\* Between two solutions the buffer is empty.
LEMMA BufferEmpty ==
  ASSUME BufferInv, todo = << >>
  PROVE  Scan(out).buffer = << >>
<1>1. \A p \in Patterns : RLE(p) # << >>
  <2> TAKE p \in Patterns
  <2>1. CASE p \in Wrapped
    BY <2>1, BlockParses
  <2>2. CASE p \notin Wrapped
    BY <2>2, BlockParses
  <2> QED
    BY <2>1, <2>2
<1> QED
  BY <1>1 DEF BufferInv

\* A line that belongs to no solution starts no block and ends none.
LEMMA OtherLine ==
  ASSUME TypeOK, BufferInv, todo = << >>, todo' = << >>,
         NEW l \in Lines, l.kind \notin {"header", "last"}, out' = Append(out, l)
  PROVE  BufferInv' /\ Blocks(out') = Blocks(out)
<1>1. Scan(out).buffer = << >> /\ out \in Seq(Lines)
  BY BufferEmpty DEF TypeOK
<1>2. Scan(out) \in Scans /\ Scan(out') = [buffer |-> << >>, blocks |-> Scan(out).blocks]
  BY <1>1, ScanAppend, ScanLineIs
<1> QED
  BY <1>2 DEF BufferInv, Blocks

\* What is left of three elements, and one more after the first.
LEMMA TailOfThree ==
  ASSUME NEW S, NEW s \in Seq(S), Len(s) = 3
  PROVE  Tail(s) \in Seq(S) /\ Len(Tail(s)) = 2 /\ Tail(s)[1] = s[2] /\ Tail(s)[2] = s[3]
<1>1. s # << >>
  OBVIOUS
<1>2. Tail(s) \in Seq(S) /\ Len(Tail(s)) = 2
  BY <1>1, HeadTailProperties
<1>3. \A i \in 1 .. Len(Tail(s)) : Tail(s)[i] = s[i + 1]
  BY <1>1, HeadTailProperties
<1> QED
  BY <1>2, <1>3

LEMMA AppendToOne ==
  ASSUME NEW S, NEW s \in Seq(S), NEW x \in S, Len(s) = 1
  PROVE  /\ Append(s, x) \in Seq(S) /\ Len(Append(s, x)) = 2
         /\ Append(s, x)[1] = s[1] /\ Append(s, x)[2] = x
<1>1. Append(s, x) \in Seq(S)
  BY AppendProperties
<1>2. Len(Append(s, x)) = Len(s) + 1
  BY AppendProperties
<1>3. Append(s, x)[Len(s) + 1] = x
  BY AppendProperties
<1>4. \A i \in 1 .. Len(s) : Append(s, x)[i] = s[i]
  BY AppendProperties
<1>5. Append(s, x)[1] = s[1]
  BY <1>4
<1> QED
  BY <1>1, <1>2, <1>3, <1>5

\* Sequences of two and three lines, taken apart and put together.
LEMMA ThreeTaken ==
  ASSUME NEW a, NEW b, NEW c
  PROVE  Tail(<<a, b, c>>) = <<b, c>>
<1> DEFINE S == {a, b, c}
           three == <<a, b, c>>
           two == <<b, c>>
           left == Tail(three)
<1>1. three \in Seq(S) /\ Len(three) = 3 /\ three[2] = b /\ three[3] = c
  OBVIOUS
<1>2. two \in Seq(S) /\ Len(two) = 2 /\ two[1] = b /\ two[2] = c
  OBVIOUS
<1> HIDE DEF S, three, two
<1>3. left \in Seq(S) /\ Len(left) = 2 /\ left[1] = three[2] /\ left[2] = three[3]
  BY <1>1, TailOfThree
<1> HIDE DEF left
<1>4. \A i \in 1 .. 2 : left[i] = two[i]
  BY <1>1, <1>2, <1>3
<1>5. left = two
  BY <1>2, <1>3, <1>4, SeqEqual
<1> QED
  BY <1>5 DEF left, three, two

LEMMA TwoMade ==
  ASSUME NEW a, NEW b
  PROVE  Append(<<a>>, b) = <<a, b>> /\ Append(<< >>, a) = <<a>> /\ Tail(<<a, b>>) = <<b>>
<1> DEFINE S == {a, b}
           one == <<a>>
           pair == <<a, b>>
           both == Append(one, b)
<1>1. one \in Seq(S) /\ Len(one) = 1 /\ one[1] = a /\ b \in S
  OBVIOUS
<1>2. pair \in Seq(S) /\ Len(pair) = 2 /\ pair[1] = a /\ pair[2] = b
  OBVIOUS
<1>3. Append(<< >>, a) = <<a>> /\ Tail(<<a, b>>) = <<b>>
  OBVIOUS
<1> HIDE DEF S, one, pair
<1>4. both \in Seq(S) /\ Len(both) = 2 /\ both[1] = one[1] /\ both[2] = b
  BY <1>1, AppendToOne
<1> HIDE DEF both
<1>5. \A i \in 1 .. 2 : both[i] = pair[i]
  BY <1>1, <1>2, <1>4
<1>6. both = pair
  BY <1>2, <1>4, <1>5, SeqEqual
<1> QED
  BY <1>3, <1>6 DEF both, one, pair

\* A line of a solution: the last one adds the block of that solution, the others none.
LEMMA SolutionLine ==
  ASSUME TypeOK, BufferInv, PrintsSolution
  PROVE  /\ BufferInv'
         /\ \/ printed' = printed /\ Blocks(out') = Blocks(out)
            \/ \E p \in Patterns : /\ printed' = Append(printed, p)
                                   /\ Blocks(out') = Append(Blocks(out), BlockOf(p))
<1> DEFINE l == Head(todo)
           s == Scan(out)
<1>1. /\ todo # << >> /\ out' = Append(out, l) /\ todo' = Tail(todo)
      /\ printed' = IF l.kind = "last" THEN Append(printed, l.of) ELSE printed
  BY DEF PrintsSolution, Emit
<1>2. PICK p \in Patterns :
        \/ todo = RLE(p) /\ s.buffer = << >>
        \/ /\ p \in Wrapped /\ todo = <<Line("part", p), Line("last", p)>>
           /\ s.buffer = <<Line("header", p)>>
        \/ p \in Wrapped /\ todo = <<Line("last", p)>> /\ s.buffer = << >>
        \/ p \notin Wrapped /\ todo = <<Line("last", p)>> /\ s.buffer = <<Line("header", p)>>
  BY <1>1 DEF BufferInv
<1>3. \A kind \in {"header", "part", "last"} :
        Line(kind, p) \in Lines /\ Line(kind, p).kind = kind /\ Line(kind, p).of = p
  BY DEF Line, Lines, SolutionLines
<1>4. s \in Scans /\ \A m \in Lines : out' = Append(out, m) => Scan(out') = ScanLine(s, m)
  <2>1. out \in Seq(Lines)
    BY DEF TypeOK
  <2>2. \A m \in Lines : s \in Scans /\ Scan(Append(out, m)) = ScanLine(s, m)
    BY <2>1, ScanAppend
  <2> QED
    BY <1>3, <2>2
<1> HIDE DEF l, s
\* The header is buffered.
<1>5. CASE todo = RLE(p) /\ s.buffer = << >>
  <2>1. l = Line("header", p)
    BY <1>5, BlockParses DEF l
  <2>2. Scan(out') = [buffer |-> Append(s.buffer, l), blocks |-> s.blocks]
    BY <1>1, <1>3, <1>4, <2>1, ScanLineIs
  <2>3. Scan(out').buffer = <<Line("header", p)>> /\ Blocks(out') = Blocks(out)
    BY <1>5, <2>1, <2>2 DEF Blocks, s
  <2>4. printed' = printed
    BY <1>1, <1>3, <2>1
  <2>5. CASE p \in Wrapped
    <3> DEFINE h == Line("header", p)
               m == Line("part", p)
               e == Line("last", p)
    <3>1. todo = <<h, m, e>>
      BY <1>5, <2>5, BlockParses
    <3> HIDE DEF h, m, e
    <3>2. todo' = <<m, e>>
      BY <1>1, <3>1, ThreeTaken
    <3> QED
      BY <2>3, <2>4, <2>5, <3>2 DEF BufferInv, m, e
  <2>6. CASE p \notin Wrapped
    <3>1. Tail(<<Line("header", p), Line("last", p)>>) = <<Line("last", p)>>
      BY TwoMade
    <3>2. todo' = <<Line("last", p)>>
      BY <1>1, <1>5, <2>6, <3>1, BlockParses
    <3> QED
      BY <2>3, <2>4, <2>6, <3>2 DEF BufferInv
  <2> QED
    BY <2>5, <2>6
\* The first line of a wrapped body empties the buffer.
<1>6. CASE p \in Wrapped /\ todo = <<Line("part", p), Line("last", p)>>
  <2>1. l = Line("part", p) /\ todo' = <<Line("last", p)>>
    BY <1>1, <1>6 DEF l
  <2>2. Scan(out') = [buffer |-> << >>, blocks |-> s.blocks]
    BY <1>1, <1>3, <1>4, <2>1, ScanLineIs
  <2>3. Scan(out').buffer = << >> /\ Blocks(out') = Blocks(out)
    BY <2>2 DEF Blocks, s
  <2>4. printed' = printed
    BY <1>1, <1>3, <2>1
  <2> QED
    BY <1>6, <2>1, <2>3, <2>4 DEF BufferInv
\* The last line ends a block.
<1>7. CASE todo = <<Line("last", p)>> /\ BlockOf(p) = Append(s.buffer, Line("last", p))
  <2>1. l = Line("last", p) /\ todo' = << >>
    BY <1>1, <1>7 DEF l
  <2>2. Scan(out') = [buffer |-> << >>, blocks |-> Append(s.blocks, Append(s.buffer, l))]
    BY <1>1, <1>3, <1>4, <2>1, ScanLineIs
  <2>3. Scan(out').buffer = << >> /\ Blocks(out') = Append(Blocks(out), BlockOf(p))
    BY <1>7, <2>1, <2>2 DEF Blocks, s
  <2>4. printed' = Append(printed, p)
    BY <1>1, <1>3, <2>1
  <2> QED
    BY <2>1, <2>3, <2>4 DEF BufferInv
<1>8. p \in Wrapped /\ s.buffer = << >> => BlockOf(p) = Append(s.buffer, Line("last", p))
  BY DEF BlockOf
<1>9. p \notin Wrapped /\ s.buffer = <<Line("header", p)>> =>
        BlockOf(p) = Append(s.buffer, Line("last", p))
  BY BlockParses, TwoMade DEF BlockOf
<1> QED
  BY <1>2, <1>5, <1>6, <1>7, <1>8, <1>9

\* One more solution adds its block to those of the others.
LEMMA SolvedLonger ==
  ASSUME NEW ps \in Seq(Patterns), NEW p \in Patterns, NEW N \in Nat, N = Len(ps)
  PROVE  Append([i \in 1 .. N |-> BlockOf(ps[i])], BlockOf(p))
           = [i \in 1 .. N + 1 |-> BlockOf(Append(ps, p)[i])]
<1> DEFINE more == Append(ps, p)
           D == {BlockOf(q) : q \in Patterns}
           u == [i \in 1 .. N |-> BlockOf(ps[i])]
           v == [i \in 1 .. N + 1 |-> BlockOf(more[i])]
           b == BlockOf(p)
           longer == Append(u, b)
<1>1. more \in Seq(Patterns) /\ Len(more) = N + 1 /\ more[N + 1] = p
      /\ \A i \in 1 .. N : more[i] = ps[i]
  OBVIOUS
<1> HIDE DEF more
<1>2. \A q \in Patterns : BlockOf(q) \in D
  OBVIOUS
<1>3. b \in D
  BY <1>2
<1>4. \A i \in 1 .. N : ps[i] \in Patterns /\ i \in 1 .. N + 1
  OBVIOUS
<1>5. \A i \in 1 .. N + 1 : more[i] \in Patterns
  BY <1>1
<1> HIDE DEF D
<1>6. u \in Seq(D) /\ Len(u) = N /\ \A i \in 1 .. N : u[i] = BlockOf(ps[i])
  BY <1>2, <1>4
<1>7. v \in Seq(D) /\ Len(v) = N + 1 /\ \A i \in 1 .. N + 1 : v[i] = BlockOf(more[i])
  BY <1>2, <1>5
<1>8. v[N + 1] = b /\ \A i \in 1 .. N : v[i] = BlockOf(ps[i])
  BY <1>1, <1>4, <1>7
<1> HIDE DEF u, v, b
<1>9. longer \in Seq(D) /\ Len(longer) = N + 1 /\ longer[N + 1] = b
      /\ \A i \in 1 .. N : longer[i] = u[i]
  BY <1>3, <1>6
<1> HIDE DEF longer
<1>10. \A i \in 1 .. N + 1 : longer[i] = v[i]
  <2> TAKE i \in 1 .. N + 1
  <2>1. CASE i = N + 1
    BY <1>8, <1>9, <2>1
  <2>2. CASE i # N + 1
    <3>1. i \in 1 .. N
      BY <2>2
    <3> QED
      BY <1>6, <1>8, <1>9, <3>1
  <2> QED
    BY <2>1, <2>2
<1>11. longer = v
  BY <1>7, <1>9, <1>10, SeqEqual
<1> QED
  BY <1>11 DEF longer, u, v, b, more

\* The blocks of all that was read before stay what they were when a line is added.
LEMMA LongerOutput ==
  ASSUME TypeOK, TypeOK', BlocksInv, NEW l \in Lines, out' = Append(out, l),
         \/ printed' = printed /\ Blocks(out') = Blocks(out)
         \/ \E p \in Patterns : /\ printed' = Append(printed, p)
                                /\ Blocks(out') = Append(Blocks(out), BlockOf(p))
  PROVE  BlocksInv'
<1> DEFINE n == Len(out)
           N == Len(printed)
           M == Len(printed')
           S(ps, m) == [i \in 1 .. m |-> BlockOf(ps[i])]
<1>1. /\ out \in Seq(Lines) /\ n \in Nat /\ Len(out') = n + 1
      /\ \A k \in 0 .. n : SubSeq(out', 1, k) = SubSeq(out, 1, k)
      /\ SubSeq(out', 1, n + 1) = out'
  BY DEF TypeOK
<1>2. /\ Blocks(out) = S(printed, N)
      /\ \A k \in 0 .. n : \E m \in 0 .. N : Blocks(SubSeq(out, 1, k)) = S(printed, m)
  BY DEF BlocksInv, Solved
<1>3. printed \in Seq(Patterns) /\ N \in Nat
  BY DEF TypeOK
<1>4. /\ M \in Nat /\ N <= M /\ Blocks(out') = S(printed', M)
      /\ \A i \in 1 .. N : printed'[i] = printed[i]
  <2>1. CASE printed' = printed /\ Blocks(out') = Blocks(out)
    BY <1>2, <1>3, <2>1
  <2>2. ASSUME NEW p \in Patterns, printed' = Append(printed, p),
               Blocks(out') = Append(Blocks(out), BlockOf(p))
        PROVE  /\ M \in Nat /\ N <= M /\ Blocks(out') = S(printed', M)
               /\ \A i \in 1 .. N : printed'[i] = printed[i]
    <3>1. M = N + 1 /\ \A i \in 1 .. N : printed'[i] = printed[i]
      BY <1>3, <2>2
    <3>2. Append(S(printed, N), BlockOf(p)) = S(printed', N + 1)
      BY <1>3, <2>2, SolvedLonger
    <3> HIDE DEF M, N, S
    <3>3. Blocks(out') = S(printed', M)
      BY <1>2, <2>2, <3>1, <3>2
    <3>4. M \in Nat /\ N <= M
      BY <1>3, <3>1
    <3> QED
      BY <3>1, <3>3, <3>4
  <2> QED
    BY <2>1, <2>2
<1> HIDE DEF n, N, M
<1>5. \A m \in 0 .. N : S(printed', m) = S(printed, m)
  <2> TAKE m \in 0 .. N
  <2>1. \A i \in 1 .. m : i \in 1 .. N
    BY <1>3
  <2>2. \A i \in 1 .. m : BlockOf(printed'[i]) = BlockOf(printed[i])
    BY <1>4, <2>1
  <2> QED
    BY <2>2
<1> HIDE DEF S
<1>6. ASSUME NEW k \in 0 .. n + 1
      PROVE  \E m \in 0 .. M : Blocks(SubSeq(out', 1, k)) = S(printed', m)
  <2>1. CASE k = n + 1
    <3>1. M \in 0 .. M
      BY <1>4
    <3> QED
      BY <1>1, <1>4, <2>1, <3>1
  <2>2. CASE k # n + 1
    <3>1. k \in 0 .. n
      BY <1>1, <2>2
    <3>2. PICK m \in 0 .. N : Blocks(SubSeq(out, 1, k)) = S(printed, m)
      BY <1>2, <3>1
    <3>3. m \in 0 .. M
      BY <1>3, <1>4
    <3> QED
      BY <1>1, <1>5, <3>1, <3>2, <3>3
  <2> QED
    BY <2>1, <2>2
<1> QED
  BY <1>1, <1>4, <1>6 DEF BlocksInv, Solved, S, M

LEMMA ScanInit == Init => ScanInv
<1> SUFFICES ASSUME Init
             PROVE  ScanInv
  OBVIOUS
<1>1. out = << >> /\ printed = << >> /\ todo = << >> /\ raw = Nothing
  BY DEF Init
<1>2. Scan(out).buffer = << >> /\ Blocks(out) = << >>
  BY <1>1, ScanNothing DEF Start, Blocks
<1>3. Solved(0) = << >>
  BY DEF Solved
<1>4. Len(out) = 0 /\ Len(printed) = 0 /\ 0 \in 0 .. 0 /\ SubSeq(out, 1, 0) = << >> /\ \A k \in 0 .. 0 : k = 0
  BY <1>1
<1>5. raw.lines = << >> /\ raw.outcome # "FOUND"
  BY <1>1 DEF Nothing
<1>6. BlocksInv
  BY <1>1, <1>2, <1>3, <1>4 DEF BlocksInv
<1>7. RawInv
  BY <1>1, <1>4, <1>5 DEF RawInv
<1> QED
  BY <1>1, <1>2, <1>6, <1>7 DEF ScanInv, BufferInv

LEMMA ScanStep == TypeOK /\ TypeOK' /\ StartInv /\ ScanInv /\ [Next]_vars => ScanInv'
<1> SUFFICES ASSUME TypeOK, TypeOK', StartInv, ScanInv, [Next]_vars
             PROVE  ScanInv'
  OBVIOUS
<1>1. BufferInv /\ BlocksInv /\ RawInv
  BY DEF ScanInv
<1>2. /\ Nothing.lines = << >> /\ Nothing.outcome # "FOUND"
      /\ \A s \in Seq(Lines) : /\ SubSeq(s, 1, 0) = << >> /\ SubSeq(s, 1, Len(s)) = s
                               /\ 0 \in 0 .. Len(s) /\ Len(s) \in 0 .. Len(s)
  BY DEF Nothing
\* While the engine prints, nothing has been returned.
<1>3. ASSUME child = "searching", raw' = raw
      PROVE  RawInv'
  <2>1. raw' = Nothing /\ out' \in Seq(Lines)
    BY <1>1, <1>3 DEF RawInv, TypeOK
  <2> QED
    BY <1>2, <2>1 DEF RawInv
<1>4. ASSUME out' = out, printed' = printed
      PROVE  BlocksInv'
  <2>1. \A m : Solved(m)' = Solved(m)
    BY <1>4 DEF Solved
  <2> QED
    BY <1>1, <1>4, <2>1 DEF BlocksInv
<1>5. ASSUME out' = out, todo' = todo
      PROVE  BufferInv'
  BY <1>1, <1>5 DEF BufferInv
<1>6. CASE Finds
  <2>1. Scan(out).buffer = << >>
    BY <1>1, <1>6, BufferEmpty DEF Finds
  <2>2. BufferInv'
    BY <1>6, <2>1 DEF Finds, BufferInv
  <2> QED
    BY <1>3, <1>4, <1>6, <2>2 DEF Finds, ScanInv
<1>7. CASE PrintsSolution
  <2>1. Head(todo) \in Lines /\ out' = Append(out, Head(todo)) /\ child = "searching" /\ raw' = raw
    BY <1>7 DEF PrintsSolution, Emit, TypeOK, Lines
  <2>2. BufferInv' /\ BlocksInv'
    BY <1>1, <1>7, <2>1, SolutionLine, LongerOutput
  <2> QED
    BY <1>3, <2>1, <2>2 DEF ScanInv
<1>8. CASE PrintsOther
  <2>1. PICK kind \in {"junk", "bytes", "marker"} : Emit(Line(kind, "other"))
    BY <1>8 DEF PrintsOther
  <2> DEFINE l == Line(kind, "other")
  <2>2. l \in Lines /\ l.kind \notin {"header", "last"}
    BY OtherTyped
  <2>3. /\ out' = Append(out, l) /\ child = "searching" /\ raw' = raw /\ todo = << >> /\ todo' = << >>
        /\ printed' = printed
    BY <1>8, <2>1 DEF PrintsOther, Emit
  <2> HIDE DEF l
  <2>4. BufferInv' /\ BlocksInv'
    BY <1>1, <2>2, <2>3, OtherLine, LongerOutput
  <2> QED
    BY <1>3, <2>3, <2>4 DEF ScanInv
<1>17. CASE Complains
  BY <1>3, <1>4, <1>5, <1>17 DEF Complains, ScanInv
<1>9. CASE ProvesNone
  <2> DEFINE l == Line("marker", "proof")
  <2>1. l \in Lines /\ l.kind \notin {"header", "last"}
    BY DEF Lines, Markers, Line
  <2>2. child = "searching" /\ raw' = raw /\ todo = << >> /\ todo' = << >> /\ printed' = printed
    BY <1>9 DEF ProvesNone, Emit
  <2>3. CASE out' = Append(out, l)
    <3> HIDE DEF l
    <3>1. BufferInv' /\ BlocksInv'
      BY <1>1, <2>1, <2>2, <2>3, OtherLine, LongerOutput
    <3> QED
      BY <1>3, <2>2, <3>1 DEF ScanInv
  <2>4. CASE out' = out
    BY <1>3, <1>4, <1>5, <2>2, <2>4 DEF ScanInv
  <2> QED
    BY <1>9, <2>3, <2>4 DEF ProvesNone, Emit
<1>10. CASE Stops("exited") \/ Stops("crashed") \/ Stops("cpu")
  BY <1>3, <1>4, <1>5, <1>10 DEF Stops, ScanInv
<1>11. CASE Unavailable
  <2>1. /\ raw' = [outcome |-> "ERROR", lines |-> << >>] /\ child' = child
        /\ out' = out /\ todo' = todo /\ printed' = printed /\ child # "searching"
    BY <1>11 DEF Unavailable, Answer, engine, StartInv
  <2>2. RawInv'
    BY <1>2, <2>1 DEF RawInv, TypeOK
  <2> QED
    BY <1>4, <1>5, <2>1, <2>2 DEF ScanInv
<1>12. CASE Available("which", "probe") \/ Available("probe", "spawn")
  BY <1>1, <1>4, <1>5, <1>12 DEF Available, engine, RawInv, ScanInv
<1>18. CASE LimitsRefused
  BY <1>1, <1>4, <1>5, <1>18 DEF LimitsRefused, Raises, engine, RawInv, ScanInv
<1>13. CASE Spawn
  <2>1. raw = Nothing /\ raw' = raw /\ out' = out /\ todo' = todo /\ printed' = printed
    BY <1>13 DEF Spawn, engine, StartInv
  <2>2. RawInv'
    BY <1>1, <2>1 DEF RawInv
  <2> QED
    BY <1>4, <1>5, <2>1, <2>2 DEF ScanInv
<1>14. CASE ChildEnds
  <2>1. out' = out /\ todo' = todo /\ printed' = printed /\ child' = child /\ child # "searching"
    BY <1>14 DEF ChildEnds, engine
  <2>2. CASE Decodes(Range(out) \cup err)
    <3>1. raw'.outcome = Outcome(out, err) /\ raw'.lines = out
      BY <1>14, <2>2 DEF ChildEnds, Answer
    <3>2. Outcome(out, err) = "FOUND" => ExtractPatterns(out) # << >>
      BY EngineAssumption DEF Outcome
    <3>3. RawInv'
      BY <1>2, <2>1, <3>1, <3>2 DEF RawInv, TypeOK
    <3> QED
      BY <1>4, <1>5, <2>1, <3>3 DEF ScanInv
  <2>3. CASE ~Decodes(Range(out) \cup err)
    BY <1>1, <1>4, <1>5, <1>14, <2>1, <2>3 DEF ChildEnds, Raises, RawInv, ScanInv
  <2> QED
    BY <2>2, <2>3
<1>15. CASE WallTimeout
  <2>1. out' = out /\ todo' = todo /\ printed' = printed /\ child' # "searching"
    BY <1>15 DEF WallTimeout, engine
  <2>2. PICK k \in 0 .. Len(out) :
          \/ raw' = [outcome |-> "TIMEOUT", lines |-> SubSeq(out, 1, k)]
          \/ raw' = raw
    BY <1>15 DEF WallTimeout, Answer, Raises
  <2>3. RawInv'
    <3>1. CASE raw' = [outcome |-> "TIMEOUT", lines |-> SubSeq(out, 1, k)]
      <4>1. raw'.outcome # "FOUND" /\ raw'.lines = SubSeq(out, 1, k)
        BY <3>1
      <4> QED
        BY <2>1, <4>1 DEF RawInv
    <3>2. CASE raw' = raw
      BY <1>1, <2>1, <3>2 DEF RawInv
    <3> QED
      BY <2>2, <3>1, <3>2
  <2> QED
    BY <1>4, <1>5, <2>1, <2>3 DEF ScanInv
<1>16. CASE UNCHANGED vars
  BY <1>1, <1>4, <1>5, <1>16 DEF vars, RawInv, ScanInv
<1> QED
  BY <1>6, <1>7, <1>8, <1>9, <1>10, <1>11, <1>12, <1>13, <1>14, <1>15, <1>16,
     <1>17, <1>18 DEF Next, Child, Adapter

LEMMA ScanInvariant == Spec => []ScanInv
<1> QED
  BY ScanInit, ScanStep, Typing, StartInvariant, PTL DEF Spec

\* However a run ended, and whichever bodies are wrapped: the candidates are the first
\* of the solutions that were printed, each of them once, and they are whole unless
\* they are wrapped.
CandidatesYielded == \E m \in 0 .. Len(printed) : Yields(Candidates, printed, m)

THEOREM Yielded == Spec => []CandidatesYielded
<1>1. TypeOK /\ ScanInv => CandidatesYielded
  <2> SUFFICES ASSUME TypeOK, ScanInv
               PROVE  CandidatesYielded
    OBVIOUS
  <2>1. PICK k \in 0 .. Len(out) : raw.lines = SubSeq(out, 1, k)
    BY DEF ScanInv, RawInv
  <2>2. PICK m \in 0 .. Len(printed) : Blocks(raw.lines) = Solved(m)
    BY <2>1 DEF ScanInv, BlocksInv
  <2>3. Yields(Candidates, printed, m)
    BY <2>2, Extracted DEF Candidates, Solved, TypeOK
  <2> QED
    BY <2>3 DEF CandidatesYielded
<1> QED
  BY <1>1, ScanInvariant, Typing, PTL

\* A run that was not cut short loses no solution, wrapped or not, and finds nothing
\* that was not printed.
THEOREM NothingLost == Spec => []NothingPrintedIsLost
<1>1. TypeOK /\ ScanInv => NothingPrintedIsLost
  <2> SUFFICES ASSUME TypeOK, ScanInv, raw.lines = out
               PROVE  /\ \A p \in Patterns :
                           (\E i \in DOMAIN printed : printed[i] = p) =>
                             (\E i \in DOMAIN Candidates : Candidates[i].of = p)
                      /\ raw.outcome = "FOUND" => printed # << >>
    BY DEF NothingPrintedIsLost
  <2> DEFINE N == Len(printed)
  <2>1. N \in Nat /\ N \in 0 .. N /\ DOMAIN printed = 1 .. N
    BY DEF TypeOK
  <2>2. Yields(Candidates, printed, N)
    BY <2>1, Extracted DEF Candidates, Solved, TypeOK, ScanInv, BlocksInv
  <2>3. \A p : CandidateOf(p).of = p
    BY DEF CandidateOf
  <2>4. ASSUME NEW i \in DOMAIN printed
        PROVE  \E j \in DOMAIN Candidates : Candidates[j].of = printed[i]
    BY <2>1, <2>2, <2>3 DEF Yields
  <2>5. ASSUME raw.outcome = "FOUND"
        PROVE  printed # << >>
    <3>1. Candidates # << >> /\ Candidates \in Seq({CandidateOf(p) : p \in Patterns})
      BY <2>2, <2>5 DEF ScanInv, RawInv, Candidates, Yields
    <3>2. 1 \in DOMAIN Candidates
      BY <3>1
    <3>3. PICK l \in 1 .. N : Candidates[1] = CandidateOf(printed[l])
      BY <2>2, <3>2 DEF Yields
    <3> QED
      BY <2>1, <3>3
  <2> QED
    BY <2>4, <2>5
<1> QED
  BY <1>1, ScanInvariant, Typing, PTL

\* Where no body is wrapped, parse yields only solutions as they were printed, and none
\* of them twice.
THEOREM OnlyPrinted ==
  ASSUME Wrapped = {}
  PROVE  Spec => []CandidatesArePrinted
<1>1. TypeOK /\ CandidatesYielded => CandidatesArePrinted
  <2> SUFFICES ASSUME TypeOK, CandidatesYielded
               PROVE  CandidatesArePrinted
    OBVIOUS
  <2>1. PICK m \in 0 .. Len(printed) : Yields(Candidates, printed, m)
    BY DEF CandidatesYielded
  <2>2. \A p : CandidateOf(p).of = p /\ CandidateOf(p).whole = TRUE
    BY DEF CandidateOf
  <2>3. \A l \in 1 .. m : l \in DOMAIN printed
    BY DEF TypeOK
  <2>4. ASSUME NEW i \in DOMAIN Candidates
        PROVE  Candidates[i].whole /\ \E j \in DOMAIN printed : printed[j] = Candidates[i].of
    <3>1. PICK l \in 1 .. m : Candidates[i] = CandidateOf(printed[l])
      BY <2>1 DEF Yields
    <3> QED
      BY <2>2, <2>3, <3>1
  <2>5. ASSUME NEW i \in DOMAIN Candidates, NEW j \in DOMAIN Candidates, i # j
        PROVE  Candidates[i].of # Candidates[j].of
    <3>1. PICK p : Candidates[i] = CandidateOf(p)
      BY <2>1 DEF Yields
    <3>2. PICK q : Candidates[j] = CandidateOf(q)
      BY <2>1 DEF Yields
    <3>3. Candidates[i] # Candidates[j]
      BY <2>1, <2>5 DEF Yields
    <3> QED
      BY <2>2, <3>1, <3>2, <3>3
  <2> QED
    BY <2>4, <2>5 DEF CandidatesArePrinted
<1> QED
  BY <1>1, Yielded, Typing, PTL

---------------------------------------------------------------------------
(* What UNSAT means.  The answer is read off the two streams, so the       *)
(* invariant relates them to the engine's own search: its proof is said    *)
(* only when it is finished, and a finished output without a pattern is    *)
(* one of an engine that printed no solution.                              *)

SaidInv ==
  /\ Line("marker", "proof") \in Range(out) \cup err => proved
  /\ UnsatIsSaid

\* An output without a pattern is that of an engine that printed no solution.
LEMMA NoPatternNoSolution ==
  ASSUME TypeOK, ScanInv, ExtractPatterns(out) = << >>
  PROVE  printed = << >>
<1> DEFINE N == Len(printed)
<1>1. N \in Nat /\ N \in 0 .. N /\ printed \in Seq(Patterns)
  BY DEF TypeOK
<1>2. Yields(ExtractPatterns(out), printed, N)
  BY <1>1, Extracted DEF Solved, ScanInv, BlocksInv
<1>3. DOMAIN ExtractPatterns(out) = {}
  OBVIOUS
<1>4. \A l \in 1 .. N : FALSE
  BY <1>2, <1>3 DEF Yields
<1>5. N = 0
  BY <1>1, <1>4
<1> QED
  BY <1>1, <1>5

\* A marker is the engine's proof or a part of some other message.
LEMMA MarkerIs ==
  ASSUME TypeOK, Has(Range(out) \cup err, "marker")
  PROVE  Line("marker", "proof") \in Range(out) \cup err \/ Line("marker", "other") \in Range(out) \cup err
<1>1. PICK l \in Range(out) \cup err : l.kind = "marker"
  BY DEF Has
<1>2. l \in Lines
  BY DEF TypeOK, Range, Lines
<1>3. l \in Markers
  BY <1>1, <1>2 DEF Lines, SolutionLines, Line
<1> QED
  BY <1>1, <1>3 DEF Markers

\* What is said stays said.
LEMMA LineAdded ==
  ASSUME NEW s \in Seq(Lines), NEW l \in Lines
  PROVE  Range(Append(s, l)) = Range(s) \cup {l}
<1> DEFINE more == Append(s, l)
<1>1. /\ DOMAIN more = DOMAIN s \cup {Len(s) + 1} /\ more[Len(s) + 1] = l
      /\ \A i \in DOMAIN s : more[i] = s[i]
  OBVIOUS
<1> HIDE DEF more
<1>2. Range(more) = Range(s) \cup {l}
  BY <1>1 DEF Range
<1> QED
  BY <1>2 DEF more

LEMMA SaidStep ==
  ASSUME TypeOK, TypeOK', StartInv, ScanInv, SaidInv, [Next]_vars
  PROVE  SaidInv'
<1> DEFINE proof == Line("marker", "proof")
           other == Line("marker", "other")
<1>1. /\ proof \in Range(out) \cup err => proved
      /\ UnsatIsSaid
  BY DEF SaidInv
<1>2. proof # other /\ \A kind : proof # Line(kind, "other")
  BY DEF Line
<1>3. \A p \in SolutionLines : p # proof
  BY DEF SolutionLines, Line
\* While the engine searches there is no answer.
<1>4. ASSUME child = "searching", raw' = raw
      PROVE  UnsatIsSaid'
  BY <1>4 DEF ScanInv, RawInv, Nothing, UnsatIsSaid
<1>5. ASSUME child # "searching", child' = child, raw'.outcome = raw.outcome \/ raw'.outcome # "UNSAT",
             out' = out, err' = err, printed' = printed, proved' = proved
      PROVE  SaidInv'
  BY <1>1, <1>5 DEF SaidInv, UnsatIsSaid
<1>6. ASSUME NEW l \in Lines, l # proof, out' = Append(out, l), err' = err, proved' = proved,
             child = "searching", raw' = raw
      PROVE  SaidInv'
  <2>1. Range(out') = Range(out) \cup {l}
    BY <1>6, LineAdded DEF TypeOK
  <2> QED
    BY <1>1, <1>4, <1>6, <2>1 DEF SaidInv
<1>7. CASE Finds \/ Stops("exited") \/ Stops("crashed") \/ Stops("cpu")
  <2>1. child = "searching" /\ raw' = raw /\ out' = out /\ err' = err /\ proved' = proved
    BY <1>7 DEF Finds, Stops
  <2> QED
    BY <1>1, <1>4, <2>1 DEF SaidInv
<1>8. CASE PrintsSolution
  <2>1. Head(todo) \in SolutionLines
    BY <1>8 DEF PrintsSolution, TypeOK
  <2>2. Head(todo) \in Lines /\ Head(todo) # proof
    BY <1>3, <2>1 DEF Lines
  <2>3. /\ out' = Append(out, Head(todo)) /\ err' = err /\ proved' = proved
        /\ child = "searching" /\ raw' = raw
    BY <1>8 DEF PrintsSolution, Emit
  <2> HIDE DEF proof
  <2> QED
    BY <1>6, <2>2, <2>3
<1>9. CASE PrintsOther
  <2>1. PICK kind \in {"junk", "bytes", "marker"} : Emit(Line(kind, "other"))
    BY <1>9 DEF PrintsOther
  <2> DEFINE l == Line(kind, "other")
  <2>2. l \in Lines /\ l # proof
    BY <1>2, OtherTyped
  <2>3. out' = Append(out, l) /\ err' = err /\ proved' = proved /\ child = "searching" /\ raw' = raw
    BY <1>9, <2>1 DEF PrintsOther, Emit
  <2> HIDE DEF l, proof
  <2> QED
    BY <1>6, <2>2, <2>3
<1>10. CASE Complains
  <2>1. PICK kind \in {"bytes", "marker"} : err' = err \cup {Line(kind, "other")}
    BY <1>10 DEF Complains
  <2>2. child = "searching" /\ raw' = raw /\ out' = out /\ proved' = proved
    BY <1>10 DEF Complains
  <2>3. Line(kind, "other") # proof
    BY <1>2
  <2> HIDE DEF proof
  <2>4. proof \in Range(out') \cup err' => proved'
    BY <1>1, <2>1, <2>2, <2>3
  <2> QED
    BY <1>4, <2>2, <2>4 DEF SaidInv, proof
<1>11. CASE ProvesNone
  <2>1. child = "searching" /\ raw' = raw /\ proved' = TRUE
    BY <1>11 DEF ProvesNone, Emit
  <2> QED
    BY <1>4, <2>1 DEF SaidInv
<1>12. CASE Unavailable
  <2>1. /\ child' = child /\ child # "searching" /\ raw'.outcome # "UNSAT"
        /\ out' = out /\ err' = err /\ printed' = printed /\ proved' = proved
    BY <1>12 DEF Unavailable, Answer, engine, StartInv
  <2> QED
    BY <1>5, <2>1
<1>13. CASE Available("which", "probe") \/ Available("probe", "spawn") \/ LimitsRefused
  <2>1. /\ child' = child /\ child # "searching" /\ raw'.outcome = raw.outcome
        /\ out' = out /\ err' = err /\ printed' = printed /\ proved' = proved
    BY <1>13 DEF Available, LimitsRefused, Raises, engine, StartInv
  <2> QED
    BY <1>5, <2>1
<1>14. CASE Spawn
  <2>1. raw' = Nothing /\ out' = out /\ err' = err /\ proved' = proved
    BY <1>14 DEF Spawn, engine, StartInv
  <2> QED
    BY <1>1, <2>1 DEF SaidInv, UnsatIsSaid, Nothing
<1>15. CASE ChildEnds
  <2>1. /\ child' = child /\ out' = out /\ err' = err /\ printed' = printed /\ proved' = proved
        /\ child \in {"exited", "crashed", "cpu"}
    BY <1>15 DEF ChildEnds, engine, StartInv
  <2>2. CASE raw' = [outcome |-> Outcome(out, err), lines |-> out] /\ Outcome(out, err) = "UNSAT"
    <3>1. ExtractPatterns(out) = << >> /\ Has(Range(out) \cup err, "marker")
      BY <2>2, EngineAssumption DEF Outcome, EngineAssumption
    <3>2. printed = << >>
      BY <3>1, NoPatternNoSolution
    <3>3. proof \in Range(out) \cup err \/ other \in Range(out) \cup err
      BY <3>1, MarkerIs
    <3>4. proved \/ other \in Range(out) \cup err
      BY <1>1, <3>3
    <3> QED
      BY <1>1, <2>1, <3>2, <3>4 DEF SaidInv, UnsatIsSaid
  <2>3. CASE raw'.outcome = raw.outcome \/ raw'.outcome # "UNSAT"
    BY <1>5, <2>1, <2>3
  <2>4. raw' = [outcome |-> Outcome(out, err), lines |-> out] \/ raw' = raw
    BY <1>15 DEF ChildEnds, Answer, Raises
  <2> QED
    BY <2>2, <2>3, <2>4
<1>16. CASE WallTimeout
  <2>1. /\ out' = out /\ err' = err /\ printed' = printed /\ proved' = proved
        /\ child' = IF child = "searching" THEN "killed" ELSE child
        /\ raw'.outcome = "TIMEOUT" \/ raw' = raw
    BY <1>16 DEF WallTimeout, Answer, Raises, engine
  <2>2. CASE child # "searching"
    BY <1>5, <2>1, <2>2
  <2>3. CASE child = "searching"
    <3>1. raw.outcome # "UNSAT"
      BY <2>3 DEF ScanInv, RawInv, Nothing
    <3> QED
      BY <1>1, <2>1, <3>1 DEF SaidInv, UnsatIsSaid
  <2> QED
    BY <2>2, <2>3
<1>17. CASE UNCHANGED vars
  BY <1>1, <1>17 DEF vars, SaidInv, UnsatIsSaid
<1> QED
  BY <1>7, <1>8, <1>9, <1>10, <1>11, <1>12, <1>13, <1>14, <1>15, <1>16, <1>17
  DEF Next, Child, Adapter

\* "a timeout is never evidence of non-existence": run_engine answers UNSAT only of an
\* engine that ended by itself, printed no solution, and finished its proof or sent a
\* message that contains a marker.
THEOREM UnsatSaid == Spec => []UnsatIsSaid
<1>1. Init => SaidInv
  BY DEF Init, Nothing, Range, SaidInv, UnsatIsSaid
<1>2. SaidInv => UnsatIsSaid
  BY DEF SaidInv
<1> QED
  BY <1>1, <1>2, SaidStep, StartInvariant, ScanInvariant, Typing, PTL DEF Spec

---------------------------------------------------------------------------
(* FailureMemory.                                                          *)

\* The larger dimension is one of the two and no smaller than either.
LEMMA UpperBound ==
  ASSUME NEW b \in Boxes
  PROVE  /\ b[1] \in Nat /\ b[2] \in Nat /\ Upper(b) \in Nat
         /\ b[1] <= Upper(b) /\ b[2] <= Upper(b)
         /\ Upper(b) = b[1] \/ Upper(b) = b[2]
BY DEF Boxes, Upper

\* A box within another is subsumed by all that the other is subsumed by.
LEMMA SubsumedTighter ==
  ASSUME NEW b \in Boxes \cup {None}, NEW c \in Boxes \cup {None}, NEW m \in Boxes \cup {None},
         Within(b, c), BoxSubsumed(c, m)
  PROVE  BoxSubsumed(b, m)
<1>1. b \in Boxes /\ c \in Boxes /\ m \in Boxes /\ b[1] <= c[1] /\ b[2] <= c[2]
  BY DEF Within, BoxSubsumed
<1>2. Upper(b) <= Upper(c)
  BY <1>1, UpperBound
<1>3. Upper(c) <= Upper(m) /\ m # None
  BY DEF BoxSubsumed
<1>4. Upper(b) \in Nat /\ Upper(c) \in Nat /\ Upper(m) \in Nat
  BY <1>1, UpperBound
<1>5. b # None
  BY <1>1, MemoryAssumption
<1>6. QED  BY <1>2, <1>3, <1>4, <1>5 DEF BoxSubsumed

\* What a square subsumes lies within it.
LEMMA SubsumedBySquare ==
  ASSUME NEW b \in Boxes \cup {None}, NEW m \in Boxes \cup {None},
         BoxSubsumed(b, m), m[1] = m[2]
  PROVE  b # None /\ Within(b, m)
<1>1. b \in Boxes /\ m \in Boxes /\ Upper(b) <= Upper(m) /\ b # None
  BY DEF BoxSubsumed
<1>2. Upper(m) = m[1]
  BY DEF Upper
<1>3. QED  BY <1>1, <1>2, UpperBound DEF Within

\* Relevance passes on to narrower specs.
LEMMA RelevantToNarrower ==
  ASSUME NEW e \in Envelopes, NEW s \in Specs, NEW t \in Specs, Narrower(s, t), Relevant(e, t)
  PROVE  Relevant(e, s)
<1>1. s.kind = t.kind /\ e.kind = t.kind
  BY DEF Narrower, Relevant
<1>2. CASE t.kind = "spaceship"
  <2>1. s.slope = t.slope /\ s.width[2] <= t.width[2]
    BY <1>1, <1>2 DEF Narrower
  <2>2. e.slope = t.slope /\ e.maxWidth # None /\ t.width[2] <= e.maxWidth
    BY <1>2 DEF Relevant
  <2>3. s.width[2] \in Nat /\ t.width[2] \in Nat
    BY <1>1, <1>2, MemoryAssumption
  <2>4. e.maxWidth \in Nat
    BY <1>1, <1>2, <2>2, MemoryAssumption
  <2>5. s.width[2] <= e.maxWidth
    BY <2>1, <2>2, <2>3, <2>4
  <2>6. QED  BY <1>1, <1>2, <2>1, <2>2, <2>5 DEF Relevant
<1>3. CASE t.kind = "oscillator"
  <2>1. s.period = t.period /\ Within(s.box, t.box)
    BY <1>1, <1>3 DEF Narrower
  <2>2. /\ e.pmin # None /\ e.pmax # None
        /\ e.pmin <= t.period /\ t.period <= e.pmax
        /\ e.maxBox = None \/ BoxSubsumed(t.box, e.maxBox)
    BY <1>3 DEF Relevant
  <2>3. s.box \in Boxes \cup {None} /\ t.box \in Boxes \cup {None}
        /\ e.maxBox \in Boxes \cup {None}
    BY <1>1, <1>3, MemoryAssumption
  <2>4. e.maxBox = None \/ BoxSubsumed(s.box, e.maxBox)
    BY <2>1, <2>2, <2>3, SubsumedTighter
  <2>5. QED  BY <1>1, <1>3, <2>1, <2>2, <2>4 DEF Relevant
<1>4. CASE t.kind = "still_life"
  <2>1. Within(s.box, t.box)
    BY <1>1, <1>4 DEF Narrower
  <2>2. BoxSubsumed(t.box, e.maxBox)
    BY <1>4 DEF Relevant
  <2>3. s.box \in Boxes \cup {None} /\ t.box \in Boxes \cup {None}
        /\ e.maxBox \in Boxes \cup {None}
    BY <1>1, <1>4, MemoryAssumption
  <2>4. BoxSubsumed(s.box, e.maxBox)
    BY <2>1, <2>2, <2>3, SubsumedTighter
  <2>5. QED  BY <1>1, <1>4, <2>4 DEF Relevant
<1>5. QED  BY <1>2, <1>3, <1>4, MemoryAssumption

---------------------------------------------------------------------------

\* Appending to a sequence keeps its elements.
LEMMA Appended ==
  ASSUME NEW S, NEW s \in Seq(S), NEW e \in S
  PROVE  /\ Append(s, e) \in Seq(S)
         /\ DOMAIN s \subseteq DOMAIN Append(s, e)
         /\ \A i \in DOMAIN s : Append(s, e)[i] = s[i]
OBVIOUS

\* Every variable keeps its type in every reachable state.
THEOREM MemoryTyping == MemorySpec => []MemoryTypeOK
<1>1. MemoryInit => MemoryTypeOK
  BY DEF MemoryInit, MemoryTypeOK
<1>2. MemoryTypeOK /\ [MemoryNext]_memoryVars => MemoryTypeOK'
  <2> SUFFICES ASSUME MemoryTypeOK, [MemoryNext]_memoryVars PROVE MemoryTypeOK'
    OBVIOUS
  <2>1. ASSUME NEW e \in Envelopes, Record(e) PROVE MemoryTypeOK'
    <3>1. memory' \in Seq(Envelopes) /\ DOMAIN memory \subseteq DOMAIN memory'
      BY <2>1, Appended DEF Record, MemoryTypeOK
    <3>2. QED  BY <2>1, <3>1 DEF Record, MemoryTypeOK
  <2>2. CASE GetFailureMemory
    BY <2>2 DEF GetFailureMemory, GetRelevant, MemoryTypeOK
  <2>3. ASSUME NEW s \in Specs, Retarget(s) PROVE MemoryTypeOK'
    BY <2>3 DEF Retarget, MemoryTypeOK
  <2>4. CASE UNCHANGED memoryVars
    BY <2>4 DEF memoryVars, MemoryTypeOK
  <2>5. QED  BY <2>1, <2>2, <2>3, <2>4 DEF MemoryNext
<1>3. QED  BY <1>1, <1>2, PTL DEF MemorySpec

\* Tightening a spec never makes the memory forget a dead end.
THEOREM TighterIsDead == MemorySpec => []NarrowerIsDeadToo
<1>1. MemoryTypeOK => NarrowerIsDeadToo
  <2> SUFFICES ASSUME MemoryTypeOK, NEW s \in Specs, NEW t \in Specs, Narrower(s, t), DeadEnd(t)
               PROVE  DeadEnd(s)
    BY DEF NarrowerIsDeadToo
  <2>1. PICK i \in DOMAIN memory : Relevant(memory[i], t)
    BY DEF DeadEnd, GetRelevant
  <2>2. memory[i] \in Envelopes
    BY DEF MemoryTypeOK
  <2>3. Relevant(memory[i], s)
    BY <2>1, <2>2, RelevantToNarrower
  <2>4. QED  BY <2>3 DEF DeadEnd, GetRelevant
<1>2. QED  BY <1>1, MemoryTyping, PTL

\* A square envelope makes a dead end only of specs that lie within it.
THEOREM SquareEnvelopes == MemorySpec => []SquaresSound
<1>1. MemoryTypeOK => SquaresSound
  <2> SUFFICES ASSUME MemoryTypeOK, NEW s \in Specs, NEW i \in GetRelevant(s),
                      s.kind \in {"oscillator", "still_life"}, memory[i].maxBox # None,
                      memory[i].maxBox[1] = memory[i].maxBox[2]
               PROVE  s.box # None /\ Within(s.box, memory[i].maxBox)
    BY DEF SquaresSound
  <2>1. memory[i] \in Envelopes /\ Relevant(memory[i], s)
    BY DEF MemoryTypeOK, GetRelevant
  <2>2. BoxSubsumed(s.box, memory[i].maxBox)
    BY <2>1 DEF Relevant
  <2>3. s.box \in Boxes \cup {None} /\ memory[i].maxBox \in Boxes \cup {None}
    <3>1. memory[i].kind = s.kind
      BY <2>1 DEF Relevant
    <3>2. QED  BY <2>1, <3>1, MemoryAssumption
  <2>4. QED  BY <2>2, <2>3, SubsumedBySquare
<1>2. QED  BY <1>1, MemoryTyping, PTL

\* A dead end once recorded stays one.
THEOREM Kept == MemorySpec => DeadEndsKept
<1> DEFINE Keeps == \A s \in Specs : DeadEnd(s) => DeadEnd(s)'
<1>1. MemoryTypeOK /\ [MemoryNext]_memoryVars => [Keeps]_memoryVars
  <2> SUFFICES ASSUME MemoryTypeOK, [MemoryNext]_memoryVars, NEW s \in Specs, DeadEnd(s) PROVE DeadEnd(s)'
    OBVIOUS
  <2>1. PICK i \in DOMAIN memory : Relevant(memory[i], s)
    BY DEF DeadEnd, GetRelevant
  <2>2. i \in DOMAIN memory' /\ memory'[i] = memory[i]
    BY Appended DEF MemoryNext, Record, GetFailureMemory, Retarget, memoryVars, MemoryTypeOK
  <2>3. i \in GetRelevant(s)'
    BY <2>1, <2>2 DEF GetRelevant
  <2>4. QED  BY <2>3 DEF DeadEnd
<1>2. QED  BY <1>1, MemoryTyping, PTL DEF MemorySpec, DeadEndsKept
=============================================================================
