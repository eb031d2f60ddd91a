--------------------------- MODULE Bridge_proofs ---------------------------
(***************************************************************************)
(* Theorems about Bridge, for all specs, candidates and widths, and any    *)
(* number of bridges and re-aims.                                          *)
(***************************************************************************)
EXTENDS Bridge, TLAPS

Campaigns == [spec : Specs, policy : SUBSET Engines, parent : Nat, ckpt : Nat]

\* Appending to a sequence keeps its elements, and adds the new one at the end.
LEMMA Appended ==
  ASSUME NEW S, NEW s \in Seq(S), NEW e \in S
  PROVE  /\ Append(s, e) \in Seq(S)
         /\ Len(Append(s, e)) = Len(s) + 1
         /\ DOMAIN Append(s, e) = DOMAIN s \cup {Len(s) + 1}
         /\ \A i \in DOMAIN s : Append(s, e)[i] = s[i]
         /\ Append(s, e)[Len(s) + 1] = e
OBVIOUS

\* The capability map names engines.
LEMMA CapableAreEngines ==
  ASSUME NEW s
  PROVE  CapableEngines(s) \subseteq Engines
BY DEF CapableEngines, Engines

\* The campaign of a re-aimed bridge is well formed.
LEMMA CreatedType ==
  ASSUME NEW s \in Specs, NEW b \in Nat, NEW i \in Nat
  PROVE  Created(s, b, i) \in Campaigns
BY CapableAreEngines DEF Created, Campaigns

\* Every variable keeps its type in every reachable state.
THEOREM Typing == Spec => []TypeOK
<1> USE BridgeAssumption
<1>1. Init => TypeOK
  <2> SUFFICES ASSUME Init PROVE TypeOK
    OBVIOUS
  <2>s. PICK s \in Specs : \E p \in SUBSET CapableEngines(s) :
          bridges = << [spec |-> s, policy |-> p, parent |-> 0, ckpt |-> 0] >>
    BY DEF Init
  <2>1. PICK p \in SUBSET CapableEngines(s) :
          bridges = << [spec |-> s, policy |-> p, parent |-> 0, ckpt |-> 0] >>
    BY <2>s
  <2>2. [spec |-> s, policy |-> p, parent |-> 0, ckpt |-> 0] \in Campaigns
    BY CapableAreEngines DEF Campaigns
  <2>3. bridges \in Seq(Campaigns) /\ Len(bridges) = 1
    BY <2>1, <2>2
  <2>4. QED  BY <2>3 DEF Init, TypeOK, Campaigns
<1>2. TypeOK /\ [Next]_vars => TypeOK'
  <2> SUFFICES ASSUME TypeOK, [Next]_vars PROVE TypeOK'
    OBVIOUS
  <2> USE DEF TypeOK
  <2>1. ASSUME NEW b \in Here, RunSearch(b) PROVE TypeOK'
    BY <2>1 DEF RunSearch, Here
  <2>2. ASSUME NEW b \in Here, RecordResult(b) PROVE TypeOK'
    BY <2>2 DEF RecordResult, Here
  <2>3. ASSUME NEW b \in Here, NEW s \in Specs, RequestRetarget(b, s) PROVE TypeOK'
    <3>1. b \in Nat /\ b \in DOMAIN seqs /\ seqs[b] + 1 \in Nat
      BY DEF Here
    <3>2. seqs' \in Seq(Nat) /\ Len(seqs') = Len(seqs)
      BY <2>3, <3>1 DEF RequestRetarget
    <3>3. pending' \subseteq Requests /\ approved' \subseteq [bridge : Nat, id : Nat]
      BY <2>3, <3>1 DEF RequestRetarget, Requests
    <3>4. QED  BY <2>3, <3>2, <3>3 DEF RequestRetarget
  <2>4. ASSUME NEW b \in Here, NEW i \in 1 .. MaxRequests, Retarget(b, i) PROVE TypeOK'
    <3>1. PICK r \in Entry(b, i) : bridges' = Append(bridges, Created(r.spec, b, i))
      BY <2>4 DEF Retarget
    <3>2. Created(r.spec, b, i) \in Campaigns
      BY <3>1, CreatedType DEF Entry, Requests, Here
    <3>3. bridges' \in Seq(Campaigns) /\ Len(bridges') = Len(bridges) + 1
      BY <3>1, <3>2 DEF Campaigns
    <3>4. seqs' \in Seq(Nat) /\ Len(seqs') = Len(seqs) + 1
      BY <2>4 DEF Retarget
    <3>5. QED  BY <2>4, <3>3, <3>4 DEF Retarget, Campaigns
  <2>5. ASSUME NEW r \in pending, ReadRequest(r) PROVE TypeOK'
    BY <2>5 DEF ReadRequest
  <2>6. ASSUME NEW r \in read, ApproveCheckpoint(r) PROVE TypeOK'
    BY <2>6 DEF ApproveCheckpoint, Requests
  <2>7. CASE UNCHANGED vars
    BY <2>7 DEF vars
  <2>8. QED  BY <2>1, <2>2, <2>3, <2>4, <2>5, <2>6, <2>7 DEF Next
<1>3. QED  BY <1>1, <1>2, PTL DEF Spec

\* A step leaves the campaign of every bridge alone.
LEMMA StepFreezes ==
  ASSUME TypeOK, [Next]_vars
  PROVE  /\ Len(bridges) <= Len(bridges')
         /\ Here \subseteq Here'
         /\ \A b \in Here : bridges'[b] = bridges[b]
<1>1. bridges \in Seq(Campaigns)
  BY DEF TypeOK, Campaigns
<1>2. CASE UNCHANGED bridges
  BY <1>1, <1>2 DEF Here
<1>3. ASSUME NEW b \in Here, NEW i \in 1 .. MaxRequests, Retarget(b, i)
      PROVE  /\ Len(bridges) <= Len(bridges')
             /\ Here \subseteq Here'
             /\ \A k \in Here : bridges'[k] = bridges[k]
  <2>1. PICK r \in Entry(b, i) : bridges' = Append(bridges, Created(r.spec, b, i))
    BY <1>3 DEF Retarget
  <2>2. Created(r.spec, b, i) \in Campaigns
    BY <1>1, <2>1, CreatedType, BridgeAssumption DEF Entry, Requests, Here, TypeOK
  <2>3. QED  BY <1>1, <2>1, <2>2, Appended DEF Here
<1>4. QED
  BY <1>2, <1>3 DEF Next, RunSearch, RecordResult, RequestRetarget, ReadRequest,
     ApproveCheckpoint, vars

\* The campaign behind a bridge never changes and never goes away.
THEOREM Frozen == Spec => CampaignsFrozen
<1> DEFINE Keeps == /\ Len(bridges) <= Len(bridges')
                    /\ \A b \in Here : bridges'[b] = bridges[b]
<1>1. TypeOK /\ [Next]_vars => [Keeps]_vars
  BY StepFreezes
<1>2. QED  BY <1>1, Typing, PTL DEF Spec, CampaignsFrozen

---------------------------------------------------------------------------
(* Re-aims.                                                                *)

\* The inductive invariant: ids are fresh, so a staged re-aim is never replaced, the one
\* that was read is the one that is staged, and an approved id names one that was meant.
ReaimInv ==
  /\ \A r \in pending : r.bridge \in Here /\ r.id <= seqs[r.bridge]
  /\ \A r, q \in pending : r.bridge = q.bridge /\ r.id = q.id => r = q
  /\ read \subseteq pending
  /\ \A r \in pending : [bridge |-> r.bridge, id |-> r.id] \in approved => r \in meant
  /\ ReaimsAsRead

LEMMA ReaimStep ==
  ASSUME TypeOK, TypeOK', ReaimInv, [Next]_vars
  PROVE  ReaimInv'
<1>t. /\ bridges \in Seq(Campaigns) /\ seqs \in Seq(Nat) /\ Len(seqs) = Len(bridges)
      /\ pending \subseteq Requests
  BY DEF TypeOK, Campaigns
<1>h. Here = DOMAIN seqs /\ Here \subseteq Nat /\ \A b \in Here : seqs[b] \in Nat
  BY <1>t DEF Here
<1>1. ASSUME NEW b \in Here, RunSearch(b) \/ RecordResult(b) PROVE ReaimInv'
  BY <1>1 DEF RunSearch, RecordResult, ReaimInv, ReaimsAsRead, Here
<1>2. ASSUME NEW b \in Here, NEW s \in Specs, RequestRetarget(b, s) PROVE ReaimInv'
  <2>2. b \in DOMAIN seqs /\ seqs[b] \in Nat
    BY <1>h
  <2>i. PICK i \in Nat : i = seqs[b] + 1
    BY <2>2
  <2>1. /\ i = seqs[b] + 1
        /\ seqs' = [seqs EXCEPT ![b] = i]
        /\ pending' = (pending \ Entry(b, i)) \cup {[bridge |-> b, id |-> i, spec |-> s]}
        /\ approved' = approved \ {[bridge |-> b, id |-> i]}
    BY <1>2, <2>i DEF RequestRetarget
  <2>3. Entry(b, i) = {}
    <3>1. \A r \in pending : r.bridge = b => r.id <= seqs[b] /\ r.id \in Nat
      BY <1>t DEF ReaimInv, Requests
    <3>2. QED  BY <2>1, <2>2, <3>1 DEF Entry
  <2>4. pending' = pending \cup {[bridge |-> b, id |-> i, spec |-> s]}
    BY <2>1, <2>3
  <2>5. UNCHANGED <<bridges, read, meant>>
    BY <1>2 DEF RequestRetarget
  <2>6. \A r \in pending : seqs'[r.bridge] >= seqs[r.bridge]
    BY <1>h, <2>1, <2>2 DEF ReaimInv
  <2>7. \A r \in pending' : r.bridge \in Here' /\ r.id <= seqs'[r.bridge]
    <3> SUFFICES ASSUME NEW r \in pending' PROVE r.bridge \in Here' /\ r.id <= seqs'[r.bridge]
      OBVIOUS
    <3>1. CASE r \in pending
      <4>1. r.bridge \in Here /\ r.id <= seqs[r.bridge] /\ r.id \in Nat
        BY <1>t, <3>1 DEF ReaimInv, Requests
      <4>2. seqs[r.bridge] \in Nat /\ seqs'[r.bridge] \in Nat
        BY <1>h, <2>1, <2>2, <4>1
      <4>3. QED  BY <2>5, <2>6, <3>1, <4>1, <4>2 DEF Here
    <3>2. CASE r = [bridge |-> b, id |-> i, spec |-> s]
      BY <2>1, <2>2, <2>5, <3>2 DEF Here
    <3>3. QED  BY <2>4, <3>1, <3>2
  <2>8. \A r, q \in pending' : r.bridge = q.bridge /\ r.id = q.id => r = q
    BY <2>3, <2>4 DEF ReaimInv, Entry
  <2>9. \A r \in pending' : [bridge |-> r.bridge, id |-> r.id] \in approved' => r \in meant'
    BY <2>1, <2>4, <2>5 DEF ReaimInv
  <2>10. read' \subseteq pending'
    BY <2>4, <2>5 DEF ReaimInv
  <2>11. ReaimsAsRead'
    BY <2>5 DEF ReaimInv, ReaimsAsRead, Here
  <2>12. QED  BY <2>7, <2>8, <2>9, <2>10, <2>11 DEF ReaimInv
<1>3. ASSUME NEW b \in Here, NEW i \in 1 .. MaxRequests, Retarget(b, i) PROVE ReaimInv'
  <2>1. PICK r \in Entry(b, i) : bridges' = Append(bridges, Created(r.spec, b, i))
    BY <1>3 DEF Retarget
  <2>2. r \in pending /\ r.bridge = b /\ r.id = i /\ r \in meant
    BY <1>3, <2>1 DEF Entry, ReaimInv, Retarget
  <2>3. Created(r.spec, b, i) \in Campaigns /\ bridges \in Seq(Campaigns)
    BY <1>t, <1>h, <2>2, CreatedType, BridgeAssumption DEF Requests
  <2>4. /\ Here' = Here \cup {Len(bridges) + 1}
        /\ \A k \in Here : bridges'[k] = bridges[k]
        /\ bridges'[Len(bridges) + 1] = Created(r.spec, b, i)
    BY <2>1, <2>3, Appended DEF Here
  <2>5. r = [bridge |-> b, id |-> i, spec |-> r.spec]
    BY <1>t, <2>2 DEF Requests
  <2>6. ReaimsAsRead'
    <3> SUFFICES ASSUME NEW k \in Here', bridges'[k].parent # 0
                 PROVE  [bridge |-> bridges'[k].parent, id |-> bridges'[k].ckpt,
                         spec |-> bridges'[k].spec] \in meant'
      BY DEF ReaimsAsRead
    <3>1. meant' = meant
      BY <1>3 DEF Retarget
    <3>2. CASE k \in Here
      BY <2>4, <3>1, <3>2 DEF ReaimInv, ReaimsAsRead
    <3>3. CASE k = Len(bridges) + 1
      BY <2>2, <2>4, <2>5, <3>1, <3>3 DEF Created
    <3>4. QED  BY <2>4, <3>2, <3>3
  <2>7. \A k \in Here : seqs'[k] = seqs[k]
    BY <1>3, <1>t, <1>h, Appended DEF Retarget
  <2>8. UNCHANGED <<pending, approved, read, meant>>
    BY <1>3 DEF Retarget
  <2>9. QED  BY <2>4, <2>6, <2>7, <2>8 DEF ReaimInv
<1>4. ASSUME NEW r \in pending, ReadRequest(r) PROVE ReaimInv'
  BY <1>4 DEF ReadRequest, ReaimInv, ReaimsAsRead, Here
<1>5. ASSUME NEW r \in read, ApproveCheckpoint(r) PROVE ReaimInv'
  <2>1. r \in pending
    BY DEF ReaimInv
  <2>2. /\ UNCHANGED <<bridges, pending, seqs, read>>
        /\ approved' = approved \cup {[bridge |-> r.bridge, id |-> r.id]}
        /\ meant' = meant \cup {r}
    BY <1>5 DEF ApproveCheckpoint
  <2>3. \A q \in pending : [bridge |-> q.bridge, id |-> q.id] \in approved' => q \in meant'
    BY <2>1, <2>2 DEF ReaimInv
  <2>4. QED  BY <2>2, <2>3 DEF ReaimInv, ReaimsAsRead, Here
<1>6. CASE UNCHANGED vars
  BY <1>6 DEF vars, ReaimInv, ReaimsAsRead, Here
<1>7. QED  BY <1>1, <1>2, <1>3, <1>4, <1>5, <1>6 DEF Next

\* A bridge is aimed only at a spec that a human read and meant when he approved that id.
THEOREM ReaimsAreMeant == Spec => []ReaimsAsRead
<1>1. Init => ReaimInv
  BY DEF Init, ReaimInv, ReaimsAsRead, Here
<1>2. TypeOK /\ TypeOK' /\ ReaimInv /\ [Next]_vars => ReaimInv'
  BY ReaimStep
<1>3. ReaimInv => ReaimsAsRead
  BY DEF ReaimInv
<1>4. QED  BY <1>1, <1>2, <1>3, Typing, PTL DEF Spec

---------------------------------------------------------------------------
(* Results: they stay within the campaign of their bridge.                 *)

UseInv ==
  /\ \A d \in recorded : d.bridge \in Here
  /\ AcceptedMeetsSpec

LEMMA UseStep ==
  ASSUME TypeOK, UseInv, [Next]_vars
  PROVE  UseInv'
<1>1. Here \subseteq Here' /\ \A b \in Here : bridges'[b] = bridges[b]
  BY StepFreezes
<1>2. ASSUME NEW b \in Here, RecordResult(b) PROVE UseInv'
  <2>1. PICK c \in Candidates, status \in Statuses, claim \in Statuses \cup {None} :
          /\ Earned(b, c, status, claim)
          /\ recorded' = recorded \cup {[bridge |-> b, cand |-> c, status |-> status]}
          /\ UNCHANGED bridges
    BY <1>2 DEF RecordResult
  <2>2. AcceptedMeetsSpec'
    BY <2>1 DEF UseInv, AcceptedMeetsSpec, Earned
  <2>3. QED  BY <2>1, <2>2 DEF UseInv, Here
<1>3. CASE UNCHANGED recorded
  BY <1>1, <1>3 DEF UseInv, AcceptedMeetsSpec
<1>4. QED
  BY <1>2, <1>3 DEF Next, RunSearch, RequestRetarget, Retarget, ReadRequest,
     ApproveCheckpoint, vars

\* What was accepted through a bridge meets the spec of that bridge, whatever was re-aimed
\* since.
THEOREM AcceptedMeets == Spec => []AcceptedMeetsSpec
<1>1. Init => UseInv
  BY DEF Init, UseInv, AcceptedMeetsSpec
<1>2. TypeOK /\ UseInv /\ [Next]_vars => UseInv'
  BY UseStep
<1>3. UseInv => AcceptedMeetsSpec
  BY DEF UseInv
<1>4. QED  BY <1>1, <1>2, <1>3, Typing, PTL DEF Spec
=============================================================================
