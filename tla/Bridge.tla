------------------------------- MODULE Bridge -------------------------------
(***************************************************************************)
(* lifeseek_mcp/bridge.py: the guard between an agent and a frozen         *)
(* campaign, with lifecore/campaign/campaign.py (create) and               *)
(* lifecore/targetspec/capability.py (which engines can search a spec).    *)
(*                                                                         *)
(* The agent runs searches, records results, stages re-aims and applies    *)
(* approved ones, in any order, on any bridge it still holds: retarget     *)
(* returns a new bridge and leaves the old one usable.  The human reads a  *)
(* staged re-aim and later approves it by its id alone.                    *)
(*                                                                         *)
(* Abstracted: what the verifier says of a candidate under a spec is the   *)
(* constant Meets; the novelty oracle answers as it likes; an engine       *)
(* policy is a set (its order steers nothing here).  A refused call        *)
(* raises and changes nothing, so it is no action.                         *)
(***************************************************************************)
EXTENDS Integers, Sequences, FiniteSets

CONSTANTS
  Specs,         \* target specs: records with kind, slope, mechanism, width
  Candidates,
  Meets,         \* <<candidate, spec>>: the verifier passes the candidate
  HalfWidths,    \* widths an agent may propose, in halves: 5 stands for 2.5
  None,
  MaxBridges,    \* bound: bridges
  MaxRequests    \* bound: re-aims staged on a bridge

Kinds == {"spaceship", "oscillator", "still_life", "stub"}
Engines == {"qfind", "rlifesrc", "lls", "ikpx2"}
Statuses == {"NOVEL", "KNOWN", "DERIVATIVE", "UNCERTAIN"}

ASSUME BridgeAssumption ==
  /\ \A s \in Specs :
       /\ s.kind \in Kinds
       /\ s.kind = "spaceship" =>
            /\ s.slope \in {"orthogonal", "diagonal", "oblique"}
            /\ s.width \in Nat \X Nat /\ 1 <= s.width[1] /\ s.width[1] <= s.width[2]
       /\ s.kind = "oscillator" => s.mechanism \in {"low_period_direct", "assembly"}
  /\ Meets \subseteq Candidates \X Specs
  /\ HalfWidths \subseteq Int
  /\ None \notin HalfWidths /\ None \notin Statuses
  /\ MaxBridges \in Nat /\ MaxRequests \in Nat

\* capable_engines(spec)
CapableEngines(spec) ==
  CASE spec.kind = "spaceship" /\ spec.slope = "oblique" -> {"ikpx2"}
    [] spec.kind = "spaceship" /\ spec.slope # "oblique" -> {"qfind", "rlifesrc"}
    [] spec.kind = "oscillator" /\ spec.mechanism = "low_period_direct" -> {"rlifesrc", "lls"}
    [] spec.kind = "still_life" -> {"rlifesrc", "lls"}
    [] OTHER -> {}

VARIABLES
  bridges,     \* the campaign of each bridge: spec and policy; where it came from
  pending,     \* _pending: the staged re-aims [bridge, id, spec]
  approved,    \* those whose approved flag is set [bridge, id]
  seqs,        \* _checkpoint_seq of each bridge
  read,        \* history: what the human has read [bridge, id, spec]
  meant,       \* history: what the human meant to approve [bridge, id, spec]
  search,      \* history: the last search that reached the runner, and its width
  recorded     \* history: candidates that were accepted [bridge, cand]

vars == <<bridges, pending, approved, seqs, read, meant, search, recorded>>

\* The first bridge has a campaign the human wrote, its policy validated by create.
Init ==
  /\ \E s \in Specs : \E p \in SUBSET CapableEngines(s) :
       bridges = << [spec |-> s, policy |-> p, parent |-> 0, ckpt |-> 0] >>
  /\ pending = {}
  /\ approved = {}
  /\ seqs = << 0 >>
  /\ read = {}
  /\ meant = {}
  /\ search = None
  /\ recorded = {}

Here == DOMAIN bridges

---------------------------------------------------------------------------
(* Searches and results.                                                   *)

\* propose_engine_policy: the capability map decides, not the campaign's policy.
EngineAllowed(b, engine) == engine \in CapableEngines(bridges[b].spec)

\* int(w / 2), as Python truncates: towards zero.
Truncated(w) == IF w >= 0 THEN w \div 2 ELSE -((-w) \div 2)

\* _TUNABLE_KEYS, and what else an agent may name: a field of the spec that is immutable
\* (one for all of _IMMUTABLE_FIELD_KEYS), or a key on neither list.
TunableKeys == {"width", "seed", "engine_cpu_seconds"}
ParamKeys == TunableKeys \cup {"bbox_max", "other"}

\* propose_search_params: no key but the tunable ones; the width is compared as an int,
\* and for a spaceship only.
ParamsAllowed(b, keys, w) ==
  /\ keys \subseteq TunableKeys
  /\ "width" \in keys /\ bridges[b].spec.kind = "spaceship" =>
       Truncated(w) \in bridges[b].spec.width[1] .. bridges[b].spec.width[2]

\* run_search: the params go to the runner as they were proposed.
RunSearch(b) ==
  \E engine \in Engines :
    /\ EngineAllowed(b, engine)
    /\ \E keys \in SUBSET ParamKeys :
         \E w \in IF "width" \in keys THEN HalfWidths ELSE {None} :
           /\ ParamsAllowed(b, keys, w)
           /\ search' = [bridge |-> b, engine |-> engine, width |-> w]
    /\ UNCHANGED <<bridges, pending, approved, seqs, read, meant, recorded>>

\* record_result: a claim must agree with the oracle, then the gate decides.
Earned(b, c, status, claim) ==
  /\ claim \in {None, status}
  /\ <<c, bridges[b].spec>> \in Meets
  /\ status = "NOVEL"

\* The results the gate refuses leave no trace.
RecordResult(b) ==
  \E c \in Candidates, status \in Statuses, claim \in Statuses \cup {None} :
    /\ Earned(b, c, status, claim)
    /\ recorded' = recorded \cup {[bridge |-> b, cand |-> c, status |-> status]}
    /\ UNCHANGED <<bridges, pending, approved, seqs, read, meant, search>>

---------------------------------------------------------------------------
(* The human-gated re-aim.                                                 *)

\* The dict entry for an id of a bridge.
Entry(b, i) == {r \in pending : r.bridge = b /\ r.id = i}

\* Mutant of RequestRetarget: an id that was staged before is used again.
RequestReusesId(b, s) ==
  /\ seqs[b] < MaxRequests
  /\ LET i == IF seqs[b] = 0 THEN 1 ELSE seqs[b] IN
       /\ seqs' = [seqs EXCEPT ![b] = i]
       /\ pending' = (pending \ Entry(b, i)) \cup {[bridge |-> b, id |-> i, spec |-> s]}
       /\ approved' = approved \ {[bridge |-> b, id |-> i]}
  /\ UNCHANGED <<bridges, read, meant, search, recorded>>

\* request_retarget_checkpoint: a new id, and a dict entry that is not approved.
RequestRetarget(b, s) ==
  /\ seqs[b] < MaxRequests
  /\ LET i == seqs[b] + 1 IN
       /\ seqs' = [seqs EXCEPT ![b] = i]
       /\ pending' = (pending \ Entry(b, i)) \cup {[bridge |-> b, id |-> i, spec |-> s]}
       /\ approved' = approved \ {[bridge |-> b, id |-> i]}
  /\ UNCHANGED <<bridges, read, meant, search, recorded>>

\* The human looks at a staged re-aim.
ReadRequest(r) ==
  /\ r \in pending
  /\ read' = read \cup {r}
  /\ UNCHANGED <<bridges, pending, approved, seqs, meant, search, recorded>>

\* approve_checkpoint(id), for a request the human has read at some earlier time.
ApproveCheckpoint(r) ==
  /\ r \in read
  /\ Entry(r.bridge, r.id) # {}
  /\ approved' = approved \cup {[bridge |-> r.bridge, id |-> r.id]}
  /\ meant' = meant \cup {r}
  /\ UNCHANGED <<bridges, pending, seqs, read, search, recorded>>

\* Campaign.create(spec, engine_policy=None): the policy is all that is capable.
Created(s, b, i) ==
  [spec |-> s, policy |-> CapableEngines(s), parent |-> b, ckpt |-> i]

\* The approval is not used up: the same re-aim can be applied again.
Retarget(b, i) ==
  /\ Len(bridges) < MaxBridges
  /\ [bridge |-> b, id |-> i] \in approved
  /\ \E r \in Entry(b, i) : bridges' = Append(bridges, Created(r.spec, b, i))
  /\ seqs' = Append(seqs, 0)
  /\ UNCHANGED <<pending, approved, read, meant, search, recorded>>

Next ==
  \/ \E b \in Here :
       \/ RunSearch(b)
       \/ RecordResult(b)
       \/ \E s \in Specs : RequestRetarget(b, s)
       \/ \E i \in 1 .. MaxRequests : Retarget(b, i)
  \/ \E r \in pending : ReadRequest(r)
  \/ \E r \in read : ApproveCheckpoint(r)

Spec == Init /\ [][Next]_vars

---------------------------------------------------------------------------
(* Properties.                                                             *)

Requests == [bridge : Nat, id : Nat, spec : Specs]

\* Every variable holds a value of its type; each bridge has its own id counter.
TypeOK ==
  /\ bridges \in Seq([spec : Specs, policy : SUBSET Engines, parent : Nat, ckpt : Nat])
  /\ pending \subseteq Requests
  /\ approved \subseteq [bridge : Nat, id : Nat]
  /\ seqs \in Seq(Nat)
  /\ Len(seqs) = Len(bridges)
  /\ read \subseteq Requests
  /\ meant \subseteq Requests
  /\ search = None \/ search \in [bridge : Nat, engine : Engines, width : HalfWidths \cup {None}]
  /\ recorded \subseteq [bridge : Nat, cand : Candidates, status : Statuses]

\* A bridge is aimed at the spec it was created with, or at one that a human read and
\* meant when he approved that id of that parent: an approval by bare id cannot be
\* turned to a spec that was staged after it was read.
ReaimsAsRead ==
  \A b \in Here :
    bridges[b].parent # 0 =>
      [bridge |-> bridges[b].parent, id |-> bridges[b].ckpt, spec |-> bridges[b].spec] \in meant

\* No call changes the campaign of a bridge that exists, and none takes one away.
CampaignsFrozen ==
  [][ /\ Len(bridges) <= Len(bridges')
      /\ \A b \in Here : bridges'[b] = bridges[b] ]_vars

\* What was accepted through a bridge meets the spec of that bridge, then and now, and
\* was novel to the oracle, whatever the agent claimed.
AcceptedMeetsSpec ==
  \A d \in recorded : <<d.cand, bridges[d.bridge].spec>> \in Meets /\ d.status = "NOVEL"

---------------------------------------------------------------------------
\* "MECHANICALLY REJECTS any agent attempt to: widen a tolerance field (search width
\* beyond w_max, ...)": the width the runner is given is at most w_max.
WidthNotWidened ==
  search # None /\ search.width # None =>
    LET spec == bridges[search.bridge].spec IN
      spec.kind = "spaceship" => search.width <= 2 * spec.width[2]

\* "A campaign for a no-capable-engine spec (e.g. a Gun or an oblique ship)": an oblique
\* ship has no capable engine.
ObliqueHasNoEngine ==
  \A b \in Here :
    bridges[b].spec.kind = "spaceship" /\ bridges[b].spec.slope = "oblique" =>
      CapableEngines(bridges[b].spec) = {}
=============================================================================
