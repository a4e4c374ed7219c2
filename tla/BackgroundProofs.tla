-------------------------- MODULE BackgroundProofs --------------------------
(***************************************************************************)
(* The work in the background: repair sessions, the batchlog and streams.  *)
(*                                                                         *)
(* Repair.  The participants of a session agree, and the session           *)
(* implements RepairCommit, for any set of participants, as long as the    *)
(* end of a repair is not reported to a session that was aborted.  A       *)
(* participant answers each message once, so the coordinator has no answer *)
(* left to receive when it commits: Committed is final, as Failed is.      *)
(* Commit messages are sent in the one state and fail messages in the      *)
(* other, hence no session sees both.                                      *)
(*                                                                         *)
(* Batches.  A batch that has been begun has its file until all its        *)
(* mutations are applied: the file is written before the first of them,    *)
(* and whoever removes it, execute_logged or a replay, has applied the     *)
(* last.  Replays take turns by the lease, so that no two of them write    *)
(* one batch.                                                              *)
(*                                                                         *)
(* Streams.  Every chunk on its way is one of its transfer, and so is      *)
(* every chunk in a buffer; a buffer with as many chunks as the transfer   *)
(* has holds them all.                                                     *)
(***************************************************************************)
EXTENDS ConsistentRepair, Batchlog, Streaming, FiniteSetTheorems, TLAPS

\* A leaf is for Zenon, unless it names another prover.
USE Zenon

-----------------------------------------------------------------------------
\* Repair sessions

\* A participant is asked to prepare once, and answers once.
PrepareOK ==
    /\ \A m \in msgs : m.type = "Prepare" =>
          /\ local[m.endpoint] = "None" /\ m.endpoint \notin prepare_responses
          /\ \A n \in msgs : n.type = "PrepareResponse" => n.endpoint # m.endpoint
    /\ \A m \in msgs : m.type = "PrepareResponse" => m.endpoint \notin prepare_responses
    /\ state \in {"Prepared", "FinalizeProposing", "Committed"} => prepare_responses = Participant

\* A participant is asked for its promise once, and answers once.
ProposeOK ==
    /\ state \in {"Preparing", "Prepared"} =>
          /\ promise_responses = {}
          /\ \A m \in msgs : m.type \notin {"Propose", "Promise"}
    /\ \A m \in msgs : m.type \in {"Propose", "Promise"} => m.endpoint \notin promise_responses
    /\ \A m, n \in msgs :
          (/\ m.type \in {"Propose", "Promise"} /\ n.type \in {"Propose", "Promise"}
           /\ m.endpoint = n.endpoint) => m = n
    /\ state = "Committed" => promise_responses = Participant

\* A promise binds until the session fails.
PromiseOK ==
    state # "Failed" =>
       /\ \A m \in msgs : (m.type = "Promise" /\ m.success)
             => local[m.endpoint] \in {"FinalizePromised", "Committed"}
       /\ \A p \in promise_responses : local[p] \in {"FinalizePromised", "Committed"}

\* Whoever is told the outcome is told the one the coordinator decided.
OutcomeOK ==
    /\ \A m \in msgs : /\ m.type = "Commit" => state = "Committed"
                       /\ m.type = "Fail" => state = "Failed"
    /\ \A p \in Participant : /\ local[p] = "Committed" => state = "Committed"
                              /\ local[p] = "Failed" => state = "Failed"

\* The inductive invariant.
RepairInv == TypeOK /\ PrepareOK /\ ProposeOK /\ PromiseOK /\ OutcomeOK

-----------------------------------------------------------------------------
\* Messages.

\* A message other than a promise is determined by its type and its endpoint.
LEMMA SameMessage ==
    ASSUME NEW m \in Message, NEW n \in Message,
           m.type = n.type, m.type # "Promise", m.endpoint = n.endpoint
    PROVE  m = n
BY SMT DEF Message

\* What ToAll sends.
LEMMA ToAllSends ==
    ASSUME NEW type \in {"Prepare", "Propose", "Commit", "Fail"}
    PROVE  /\ ToAll(type) \subseteq Message
           /\ \A n \in ToAll(type) : n.type = type /\ n.endpoint \in Participant
           /\ \A n, o \in ToAll(type) : n.endpoint = o.endpoint => n = o
BY SMT DEF ToAll, Message

\* The messages of a well-typed state have a type and an endpoint.
LEMMA MessageType ==
    ASSUME TypeOK, NEW m \in msgs
    PROVE  /\ m \in Message /\ m.endpoint \in Participant
           /\ m.type = "Promise" => m.success \in BOOLEAN
BY DEF TypeOK, Message

-----------------------------------------------------------------------------
\* RepairInv holds initially.
LEMMA RepairInit == Init => RepairInv
<1> SUFFICES ASSUME Init PROVE RepairInv
  OBVIOUS
<1>1. /\ msgs \subseteq Message
      /\ \A m \in msgs : m.type = "Prepare" /\ m.endpoint \in Participant
  BY ToAllSends DEF Init
<1>2. TypeOK
  BY <1>1 DEF Init, TypeOK
<1>3. PrepareOK /\ ProposeOK /\ PromiseOK /\ OutcomeOK
  BY <1>1 DEF Init, PrepareOK, ProposeOK, PromiseOK, OutcomeOK
<1> QED  BY <1>2, <1>3 DEF RepairInv

\* The prepare of a participant whose session does not exist yet.
LEMMA HandlePrepareInv ==
    ASSUME RepairInv, NEW m \in msgs, HandlePrepare(m)
    PROVE  RepairInv'
<1> DEFINE p == m.endpoint
           a == [type |-> "PrepareResponse", endpoint |-> p]
<1> USE DEF RepairInv
<1>1. /\ m \in Message /\ p \in Participant /\ m.type = "Prepare"
      /\ local[p] = "None" /\ p \notin prepare_responses
      /\ msgs' = (msgs \ {m}) \cup {a}
      /\ local' = [local EXCEPT ![p] = "Prepared"]
      /\ UNCHANGED <<state, prepare_responses, promise_responses, repairing>>
  BY MessageType DEF HandlePrepare, Reply, PrepareOK
<1>2. a \in Message /\ a.type = "PrepareResponse" /\ a.endpoint = p
  BY <1>1 DEF Message
<1> HIDE DEF a, p
<1>3. TypeOK'
  BY <1>1, <1>2 DEF TypeOK
<1>4. PrepareOK'
  <2>1. \A n \in msgs : n # m /\ n.type = "Prepare" => n.endpoint # p
    BY <1>1, MessageType, SameMessage DEF p
  <2>2. \A n \in msgs : n # m /\ n.type = "Prepare" => local'[n.endpoint] = "None"
    BY <1>1, <2>1, MessageType DEF PrepareOK, TypeOK
  <2> QED  BY SMT, <1>1, <1>2, <2>1, <2>2 DEF PrepareOK
<1>5. ProposeOK'
  BY <1>1, <1>2 DEF ProposeOK
<1>6. \A q \in Participant : local'[q] # local[q] => q = p /\ local'[q] = "Prepared"
  BY <1>1 DEF TypeOK
<1>7. PromiseOK'
  BY <1>1, <1>2, <1>6, MessageType DEF PromiseOK, TypeOK
<1>8. OutcomeOK'
  BY <1>1, <1>2, <1>6 DEF OutcomeOK
<1> QED  BY <1>3, <1>4, <1>5, <1>7, <1>8

\* A running repair is noted by a participant.
LEMMA SetRepairingInv ==
    ASSUME RepairInv, NEW p \in Participant, SetRepairing(p)
    PROVE  RepairInv'
<1> USE DEF RepairInv
<1>1. /\ local[p] = "Prepared" /\ local' = [local EXCEPT ![p] = "Repairing"]
      /\ UNCHANGED <<state, prepare_responses, promise_responses, repairing, msgs>>
  BY DEF SetRepairing
<1>2. \A q \in Participant : local'[q] # local[q] => q = p /\ local'[q] = "Repairing"
  BY <1>1 DEF TypeOK
<1>3. TypeOK'
  BY <1>1 DEF TypeOK
<1>4. PrepareOK' /\ ProposeOK'
  BY <1>1, <1>2, MessageType DEF PrepareOK, ProposeOK
<1>5. PromiseOK'
  BY <1>1, <1>2, MessageType DEF PromiseOK, TypeOK
<1>6. OutcomeOK'
  BY <1>1, <1>2 DEF OutcomeOK
<1> QED  BY <1>3, <1>4, <1>5, <1>6

\* The answer to a proposal.
LEMMA HandleFinalizeProposeInv ==
    ASSUME RepairInv, NEW m \in msgs, HandleFinalizePropose(m)
    PROVE  RepairInv'
<1> DEFINE p == m.endpoint
           a == [type |-> "Promise", endpoint |-> p, success |-> CanPromise(p)]
<1> USE DEF RepairInv
<1>1. /\ m \in Message /\ p \in Participant /\ m.type = "Propose" /\ local[p] # "None"
      /\ msgs' = (msgs \ {m}) \cup {a}
      /\ local' = IF CanPromise(p) THEN [local EXCEPT ![p] = "FinalizePromised"] ELSE local
      /\ UNCHANGED <<state, prepare_responses, promise_responses, repairing>>
  BY MessageType DEF HandleFinalizePropose, Reply
<1>2. /\ a \in Message /\ a.type = "Promise" /\ a.endpoint = p
      /\ a.success = CanPromise(p)
  BY SMT, <1>1 DEF Message, CanPromise
<1>m. m.endpoint = p
  OBVIOUS
<1> HIDE DEF a, p
<1>3. \A q \in Participant : local'[q] # local[q] =>
         q = p /\ local[q] \in {"Prepared", "Repairing"} /\ local'[q] = "FinalizePromised"
  BY <1>1 DEF TypeOK, CanPromise
<1>4. CanPromise(p) => local'[p] = "FinalizePromised"
  BY <1>1 DEF TypeOK
<1>5. TypeOK'
  BY <1>1, <1>2 DEF TypeOK
<1>6. PrepareOK'
  BY SMT, <1>1, <1>2, <1>3, MessageType DEF PrepareOK
<1>7. ProposeOK'
  BY SMT, <1>1, <1>2, <1>m, MessageType DEF ProposeOK
<1>8. PromiseOK'
  BY <1>1, <1>2, <1>3, <1>4, MessageType DEF PromiseOK, TypeOK
<1>9. OutcomeOK'
  BY <1>1, <1>2, <1>3 DEF OutcomeOK
<1> QED  BY <1>5, <1>6, <1>7, <1>8, <1>9

\* A commit reaches a participant.
LEMMA HandleCommitInv ==
    ASSUME RepairInv, NEW m \in msgs, HandleCommit(m)
    PROVE  RepairInv'
<1> DEFINE p == m.endpoint
<1> USE DEF RepairInv
<1>1. /\ p \in Participant /\ state = "Committed" /\ local[p] # "None"
      /\ msgs' = msgs \ {m}
      /\ local' = IF local[p] = "FinalizePromised" THEN [local EXCEPT ![p] = "Committed"] ELSE local
      /\ UNCHANGED <<state, prepare_responses, promise_responses, repairing>>
  BY MessageType DEF HandleCommit, Reply, OutcomeOK
<1> HIDE DEF p
<1>2. \A q \in Participant : local'[q] # local[q] =>
         q = p /\ local[q] = "FinalizePromised" /\ local'[q] = "Committed"
  BY <1>1 DEF TypeOK
<1>3. TypeOK'
  BY <1>1 DEF TypeOK
<1>4. PrepareOK' /\ ProposeOK'
  BY <1>1, <1>2, MessageType DEF PrepareOK, ProposeOK
<1>5. PromiseOK'
  BY <1>1, <1>2, MessageType DEF PromiseOK, TypeOK
<1>6. OutcomeOK'
  BY <1>1, <1>2 DEF OutcomeOK
<1> QED  BY <1>3, <1>4, <1>5, <1>6

\* A failure reaches a participant.
LEMMA HandleFailInv ==
    ASSUME RepairInv, NEW m \in msgs, HandleFail(m)
    PROVE  RepairInv'
<1> DEFINE p == m.endpoint
<1> USE DEF RepairInv
<1>1. /\ p \in Participant /\ state = "Failed" /\ local[p] # "None"
      /\ msgs' = msgs \ {m}
      /\ local' = [local EXCEPT ![p] = "Failed"]
      /\ UNCHANGED <<state, prepare_responses, promise_responses, repairing>>
  BY MessageType DEF HandleFail, Reply, OutcomeOK
<1> HIDE DEF p
<1>2. \A q \in Participant : local'[q] # local[q] => q = p /\ local'[q] = "Failed"
  BY <1>1 DEF TypeOK
<1>3. TypeOK'
  BY <1>1 DEF TypeOK
<1>4. PrepareOK'
  BY SMT, <1>1, <1>2, MessageType DEF PrepareOK
<1>5. ProposeOK' /\ PromiseOK'
  BY <1>1 DEF ProposeOK, PromiseOK
<1>6. OutcomeOK'
  BY <1>1, <1>2 DEF OutcomeOK
<1> QED  BY <1>3, <1>4, <1>5, <1>6

\* A session that is not committed may fail.
LEMMA FailInv ==
    ASSUME RepairInv, state # "Committed", state' = "Failed",
           msgs' \subseteq msgs \cup ToAll("Fail"), repairing' \in BOOLEAN,
           UNCHANGED <<prepare_responses, promise_responses, local>>
    PROVE  RepairInv'
<1> USE DEF RepairInv
<1>1. \A n \in msgs' : n \in msgs \/ (n \in Message /\ n.type = "Fail")
  BY ToAllSends
<1>2. TypeOK'
  BY <1>1 DEF TypeOK
<1>3. PrepareOK'
  BY <1>1 DEF PrepareOK
<1>4. ProposeOK' /\ PromiseOK'
  BY <1>1 DEF ProposeOK, PromiseOK
<1>5. OutcomeOK'
  BY <1>1 DEF OutcomeOK
<1> QED  BY <1>2, <1>3, <1>4, <1>5

\* An answer to prepare: the last one finds the coordinator still preparing.
LEMMA HandlePrepareResponseInv ==
    ASSUME RepairInv, NEW m \in msgs, HandlePrepareResponse(m)
    PROVE  RepairInv'
<1> USE DEF RepairInv
<1>1. /\ m \in Message /\ m.endpoint \in Participant /\ m.type = "PrepareResponse"
      /\ m.endpoint \notin prepare_responses
      /\ state \in {"Preparing", "Failed"}
  BY MessageType DEF HandlePrepareResponse, PrepareOK, TypeOK
<1>2. CASE state = "Failed"
  BY <1>1, <1>2, FailInv DEF HandlePrepareResponse, FailSession, Reply, TypeOK
<1>3. CASE state = "Preparing"
  <2>1. /\ prepare_responses' = prepare_responses \cup {m.endpoint}
        /\ repairing' \in BOOLEAN
        /\ state' = IF prepare_responses' = Participant THEN "Prepared" ELSE state
        /\ msgs' = msgs \ {m}
        /\ UNCHANGED <<promise_responses, local>>
    BY <1>3 DEF HandlePrepareResponse, Reply
  <2>2. TypeOK'
    BY <1>1, <2>1 DEF TypeOK
  <2>3. PrepareOK'
    <3>1. \A n \in msgs' : n.type = "PrepareResponse" => n.endpoint # m.endpoint
      BY <1>1, <2>1, MessageType, SameMessage
    <3>2. \A n \in msgs' : n.type = "Prepare" => n.endpoint # m.endpoint
      BY <1>1, <2>1 DEF PrepareOK
    <3> QED  BY <1>1, <1>3, <2>1, <3>1, <3>2 DEF PrepareOK
  <2>4. ProposeOK' /\ PromiseOK'
    BY <1>3, <2>1 DEF ProposeOK, PromiseOK
  <2>5. OutcomeOK'
    BY <1>3, <2>1 DEF OutcomeOK
  <2> QED  BY <2>2, <2>3, <2>4, <2>5
<1> QED  BY <1>1, <1>2, <1>3

\* The end of a repair: nobody has been asked for a promise before.
LEMMA RepairCompleteInv ==
    ASSUME RepairInv, ~LateCompletion, RepairComplete
    PROVE  RepairInv'
<1> USE DEF RepairInv
<1>1. /\ state = "Prepared" /\ state' = "FinalizeProposing" /\ repairing' = FALSE
      /\ msgs' = msgs \cup ToAll("Propose")
      /\ UNCHANGED <<prepare_responses, promise_responses, local>>
  BY DEF RepairComplete
<1>2. \A n \in msgs' : n \in msgs \/ (n \in ToAll("Propose") /\ n \in Message /\ n.type = "Propose")
  BY <1>1, ToAllSends
<1>3. TypeOK'
  BY <1>1, <1>2 DEF TypeOK
<1>4. PrepareOK'
  BY <1>1, <1>2 DEF PrepareOK
<1>5. ProposeOK'
  <2>1. \A n \in msgs' : n.type \in {"Propose", "Promise"} => n \in ToAll("Propose")
    BY <1>1, <1>2 DEF ProposeOK
  <2>2. promise_responses' = {}
    BY <1>1 DEF ProposeOK
  <2>3. \A n, o \in ToAll("Propose") : n.endpoint = o.endpoint => n = o
    BY ToAllSends
  <2> QED  BY <1>1, <2>1, <2>2, <2>3 DEF ProposeOK
<1>6. PromiseOK'
  BY <1>1, <1>2 DEF PromiseOK
<1>7. OutcomeOK'
  BY <1>1, <1>2 DEF OutcomeOK
<1> QED  BY <1>3, <1>4, <1>5, <1>6, <1>7

\* A promise or its refusal: it finds the coordinator collecting promises, or failed.
LEMMA HandlePromiseInv ==
    ASSUME RepairInv, NEW m \in msgs, HandlePromise(m)
    PROVE  RepairInv'
<1> USE DEF RepairInv
<1>1. /\ m \in Message /\ m.endpoint \in Participant /\ m.type = "Promise"
      /\ m.endpoint \notin promise_responses /\ m.success \in BOOLEAN
      /\ state \in {"FinalizeProposing", "Failed"}
  BY MessageType DEF HandlePromise, ProposeOK, TypeOK
<1>2. CASE state = "Failed" \/ ~m.success
  BY <1>1, <1>2, FailInv DEF HandlePromise, FailSession, Reply, TypeOK
<1>3. CASE state = "FinalizeProposing" /\ m.success
  <2>1. /\ promise_responses' = promise_responses \cup {m.endpoint}
        /\ \/ /\ promise_responses' = Participant /\ state' = "Committed"
              /\ msgs' = (msgs \ {m}) \cup ToAll("Commit")
           \/ promise_responses' # Participant /\ state' = state /\ msgs' = msgs \ {m}
        /\ UNCHANGED <<prepare_responses, repairing, local>>
    BY <1>3 DEF HandlePromise, CommitSession, Reply
  <2>2. \A n \in msgs' : \/ n \in msgs /\ n # m
                         \/ n \in Message /\ n.type = "Commit" /\ state' = "Committed"
    BY <2>1, <1>1, ToAllSends
  <2>3. TypeOK'
    BY <1>1, <2>1, <2>2 DEF TypeOK
  <2>4. PrepareOK'
    BY <1>3, <2>1, <2>2 DEF PrepareOK
  <2>5. ProposeOK'
    <3>1. \A n \in msgs' : n.type \in {"Propose", "Promise"} => n \in msgs /\ n.endpoint # m.endpoint
      BY <1>1, <2>2 DEF ProposeOK
    <3> QED  BY <1>3, <2>1, <3>1 DEF ProposeOK
  <2>6. PromiseOK'
    BY <1>1, <1>3, <2>1, <2>2 DEF PromiseOK
  <2>7. OutcomeOK'
    BY <1>3, <2>1, <2>2 DEF OutcomeOK
  <2> QED  BY <2>3, <2>4, <2>5, <2>6, <2>7
<1> QED  BY <1>1, <1>2, <1>3

\* A message is lost.
LEMMA LoseInv ==
    ASSUME RepairInv, NEW m \in msgs, Lose(m)
    PROVE  RepairInv'
BY SMT DEF Lose, Reply, RepairInv, TypeOK, PrepareOK, ProposeOK, PromiseOK, OutcomeOK

\* Every step preserves RepairInv.
LEMMA RepairStep ==
    ASSUME RepairInv, ~LateCompletion, [Next]_vars
    PROVE  RepairInv'
<1>1. CASE Next
  <2>1. ASSUME NEW m \in msgs, Handle(m) PROVE RepairInv'
    BY <2>1, HandlePrepareInv, HandleFinalizeProposeInv, HandleCommitInv, HandleFailInv,
       HandlePrepareResponseInv, HandlePromiseInv, LoseInv DEF Handle
  <2>2. ASSUME NEW p \in Participant, SetRepairing(p) PROVE RepairInv'
    BY <2>2, SetRepairingInv
  <2>3. CASE RepairComplete
    BY <2>3, RepairCompleteInv
  <2>4. CASE Abort
    <3>1. /\ state # "Committed" /\ state' = "Failed" /\ msgs' = msgs \cup ToAll("Fail")
          /\ repairing' \in BOOLEAN
          /\ UNCHANGED <<prepare_responses, promise_responses, local>>
      BY <2>4 DEF Abort
    <3> QED  BY <3>1, FailInv
  <2> QED  BY <1>1, <2>1, <2>2, <2>3, <2>4 DEF Next
<1>2. CASE UNCHANGED vars
  BY <1>2 DEF vars, RepairInv, TypeOK, PrepareOK, ProposeOK, PromiseOK, OutcomeOK
<1> QED  BY <1>1, <1>2

\* RepairInv is an invariant of the session.
LEMMA RepairAlways ==
    ASSUME ~LateCompletion
    PROVE  Spec => []RepairInv
<1>1. RepairInv /\ [Next]_vars => RepairInv'
  BY RepairStep
<1> QED  BY <1>1, RepairInit, PTL DEF Spec

\* The two state machines keep their types, and only participants are written to
\* and counted (CoordinatorSession's response sets).
THEOREM SessionTypes ==
    ASSUME ~LateCompletion
    PROVE  Spec => []TypeOK
<1>1. RepairInv => TypeOK
  BY DEF RepairInv
<1> QED  BY <1>1, RepairAlways, PTL

\* No participant marks its data as repaired while another gives up, whatever the
\* number of participants and whichever messages are lost, delayed or reordered
\* (LocalSession::handle_commit, handle_fail; CoordinatorSession's handlers).
THEOREM ParticipantsAgree ==
    ASSUME ~LateCompletion
    PROVE  Spec => []Agreement
<1>1. RepairInv => Agreement
  BY DEF RepairInv, OutcomeOK, Agreement
<1> QED  BY <1>1, RepairAlways, PTL

-----------------------------------------------------------------------------
\* The refinement of RepairCommit.

\* The mark of one participant.
LEMMA MarkOf ==
    ASSUME NEW p \in Participant
    PROVE  /\ (Mark[p] = "promised") <=> (local[p] = "FinalizePromised")
           /\ (Mark[p] = "repaired") <=> (local[p] = "Committed")
           /\ (Mark[p] = "failed") <=> (local[p] = "Failed")
           /\ (Mark[p] = "unrepaired") <=>
                 local[p] \notin {"FinalizePromised", "Committed", "Failed"}
BY DEF Mark

\* The same in the next state.
LEMMA MarkOfNext ==
    ASSUME NEW p \in Participant
    PROVE  /\ (Mark'[p] = "promised") <=> (local'[p] = "FinalizePromised")
           /\ (Mark'[p] = "repaired") <=> (local'[p] = "Committed")
           /\ (Mark'[p] = "failed") <=> (local'[p] = "Failed")
           /\ (Mark'[p] = "unrepaired") <=>
                 local'[p] \notin {"FinalizePromised", "Committed", "Failed"}
BY DEF Mark

\* A step that gives one participant a new state changes at most its mark.
LEMMA MarkStep ==
    ASSUME TypeOK, NEW p \in Participant, NEW s, local' = [local EXCEPT ![p] = s],
           NEW k, Mark'[p] = k
    PROVE  Mark' = [Mark EXCEPT ![p] = k]
<1>1. \A q \in Participant : q # p => local'[q] = local[q]
  BY DEF TypeOK
<1>2. \A q \in Participant : q # p => Mark'[q] = Mark[q]
  BY <1>1 DEF Mark
<1> QED  BY <1>2 DEF Mark

\* A step that changes no session is a stutter.
LEMMA MarkSame ==
    ASSUME UNCHANGED local
    PROVE  UNCHANGED Mark
BY DEF Mark

\* The session starts with unrepaired data.
LEMMA CommitInit == Init => Promised!Init
BY DEF Init, Promised!Init, Mark

\* Every step of the session is a step of RepairCommit or leaves the marks alone.
LEMMA CommitStep ==
    ASSUME RepairInv, [Next]_vars
    PROVE  [Promised!Next]_Mark
<1> USE DEF RepairInv
<1>1. ASSUME NEW m \in msgs, HandlePrepare(m) PROVE UNCHANGED Mark
  <2> DEFINE p == m.endpoint
  <2>1. /\ p \in Participant /\ local[p] = "None"
        /\ local' = [local EXCEPT ![p] = "Prepared"]
    BY <1>1, MessageType DEF HandlePrepare, PrepareOK
  <2>2. Mark[p] = "unrepaired" /\ Mark'[p] = "unrepaired"
    BY <2>1, MarkOf, MarkOfNext DEF TypeOK
  <2>3. Mark' = [Mark EXCEPT ![p] = "unrepaired"]
    BY <2>1, <2>2, MarkStep
  <2> QED  BY <2>1, <2>2, <2>3 DEF Mark
<1>2. ASSUME NEW p \in Participant, SetRepairing(p) PROVE UNCHANGED Mark
  <2>1. local[p] = "Prepared" /\ local' = [local EXCEPT ![p] = "Repairing"]
    BY <1>2 DEF SetRepairing
  <2>2. Mark[p] = "unrepaired" /\ Mark'[p] = "unrepaired"
    BY <2>1, MarkOf, MarkOfNext DEF TypeOK
  <2>3. Mark' = [Mark EXCEPT ![p] = "unrepaired"]
    BY <2>1, <2>2, MarkStep
  <2> QED  BY <2>1, <2>2, <2>3 DEF Mark
<1>3. ASSUME NEW m \in msgs, HandleFinalizePropose(m) PROVE [Promised!Next]_Mark
  <2> DEFINE p == m.endpoint
  <2>1. p \in Participant
    BY MessageType
  <2>2. CASE CanPromise(p)
    <3>1. local' = [local EXCEPT ![p] = "FinalizePromised"]
      BY <1>3, <2>2 DEF HandleFinalizePropose
    <3>2. Mark[p] = "unrepaired" /\ Mark'[p] = "promised"
      BY <2>1, <2>2, <3>1, MarkOf, MarkOfNext DEF TypeOK, CanPromise
    <3>3. Promised!Promise(p)
      BY <2>1, <3>1, <3>2, MarkStep DEF Promised!Promise
    <3> QED  BY <2>1, <3>3 DEF Promised!Next
  <2>3. CASE ~CanPromise(p)
    BY <1>3, <2>3, MarkSame DEF HandleFinalizePropose
  <2> QED  BY <2>2, <2>3
<1>4. ASSUME NEW m \in msgs, HandleCommit(m) PROVE [Promised!Next]_Mark
  <2> DEFINE p == m.endpoint
  <2>1. p \in Participant
    BY MessageType
  <2>2. CASE local[p] = "FinalizePromised"
    <3>1. local' = [local EXCEPT ![p] = "Committed"]
      BY <1>4, <2>2 DEF HandleCommit
    <3>2. Mark[p] = "promised" /\ Mark'[p] = "repaired"
      BY <2>1, <2>2, <3>1, MarkOf, MarkOfNext DEF TypeOK
    <3>3. \A q \in Participant : local[q] \in {"FinalizePromised", "Committed"}
      BY <1>4 DEF HandleCommit, OutcomeOK, ProposeOK, PromiseOK
    <3>4. \A q \in Participant : Mark[q] \in {"promised", "repaired"}
      BY <3>3, MarkOf
    <3>5. Promised!Repaired(p)
      BY <2>1, <3>1, <3>2, <3>4, MarkStep DEF Promised!Repaired
    <3> QED  BY <2>1, <3>5 DEF Promised!Next
  <2>3. CASE local[p] # "FinalizePromised"
    BY <1>4, <2>3, MarkSame DEF HandleCommit
  <2> QED  BY <2>2, <2>3
<1>5. ASSUME NEW m \in msgs, HandleFail(m) PROVE [Promised!Next]_Mark
  <2> DEFINE p == m.endpoint
  <2>1. p \in Participant /\ local' = [local EXCEPT ![p] = "Failed"]
    BY <1>5, MessageType DEF HandleFail
  <2>2. \A q \in Participant : local[q] # "Committed"
    BY <1>5 DEF HandleFail, OutcomeOK
  <2>3. Mark'[p] = "failed" /\ \A q \in Participant : Mark[q] # "repaired"
    BY <2>1, <2>2, MarkOf, MarkOfNext DEF TypeOK
  <2>4. Mark' = [Mark EXCEPT ![p] = "failed"]
    BY <2>1, <2>3, MarkStep
  <2>5. CASE local[p] = "Failed"
    <3>1. Mark[p] = "failed"
      BY <2>1, <2>5, MarkOf
    <3> QED  BY <2>1, <2>4, <3>1 DEF Mark
  <2>6. CASE local[p] # "Failed"
    <3>1. Mark[p] \in {"unrepaired", "promised"}
      BY <2>1, <2>2, <2>6, MarkOf
    <3>2. Promised!Failed(p)
      BY <2>3, <2>4, <3>1 DEF Promised!Failed
    <3> QED  BY <2>1, <3>2 DEF Promised!Next
  <2> QED  BY <2>5, <2>6
<1>6. ASSUME NEW m \in msgs, HandlePrepareResponse(m) \/ HandlePromise(m) \/ Lose(m)
      PROVE  UNCHANGED Mark
  BY <1>6, MarkSame DEF HandlePrepareResponse, HandlePromise, Lose
<1>7. ASSUME RepairComplete \/ Abort PROVE UNCHANGED Mark
  BY <1>7, MarkSame DEF RepairComplete, Abort
<1>8. ASSUME UNCHANGED vars PROVE UNCHANGED Mark
  BY <1>8, MarkSame DEF vars
<1> QED  BY <1>1, <1>2, <1>3, <1>4, <1>5, <1>6, <1>7, <1>8 DEF Next, Handle

\* The two state machines and their messages do what RepairCommit allows: nobody
\* marks data as repaired before everybody has promised, and nobody who has
\* promised gives up once somebody has marked it (handle_finalize_propose,
\* handle_commit, handle_fail).
THEOREM SessionImplementsCommit ==
    ASSUME ~LateCompletion
    PROVE  Spec => ImplementsCommit
<1>1. RepairInv /\ [Next]_vars => [Promised!Next]_Mark
  BY CommitStep
<1>2. Spec => []RepairInv
  BY RepairAlways
<1> QED  BY <1>1, <1>2, CommitInit, PTL DEF Spec, ImplementsCommit, Promised!Spec

-----------------------------------------------------------------------------
\* Logged batches

ReplayWork ==
    [pc : {"idle", "pick", "write", "remove_file"}, todo : SUBSET Batch, entry : SUBSET Batch,
     step : 1..Size + 1, ok : BOOLEAN, count : 0..RateLimit]

BatchTypes ==
    /\ pc \in [Batch -> {"new", "stored", "execute", "remove_file", "ok", "failed", "lost"}]
    /\ step \in [Batch -> 1..Size + 1] /\ done \in [Batch -> SUBSET Mutations]
    /\ entries \subseteq Batch /\ files \subseteq Batch
    /\ replay \in [Replayer -> ReplayWork] /\ lease \in BOOLEAN
    /\ crashes \in 0..MaxCrashes /\ errors \in 0..MaxErrors

\* Of the mutations of b all before the i-th are written.
WrittenBefore(b, i) == \A m \in Mutations : m < i => m \in done[b]

\* What execute_batch and a replay are about to remove is complete; a replay that is not
\* idle has the lease.
ExecuteInv(b) ==
    /\ pc[b] \in {"new", "stored"} => step[b] = 1
    /\ pc[b] = "execute" => WrittenBefore(b, step[b])
    /\ pc[b] = "remove_file" => done[b] = Mutations

ReplayInv(r) ==
    /\ replay[r].pc = "write" /\ replay[r].ok =>
         \A b \in replay[r].entry : WrittenBefore(b, replay[r].step)
    /\ replay[r].pc = "remove_file" => \A b \in replay[r].entry : done[b] = Mutations
    /\ \A b, c \in replay[r].entry : b = c
    /\ replay[r].pc = "write" => replay[r].count < RateLimit
    /\ replay[r].pc # "idle" => lease /\ \A q \in Replayer : q # r => replay[q].pc = "idle"

\* A batch that has begun has its file until it is complete.
FileInv == \A b \in Batch : pc[b] # "new" /\ b \notin files => done[b] = Mutations

BatchInv ==
    BatchTypes /\ (\A b \in Batch : ExecuteInv(b)) /\ (\A r \in Replayer : ReplayInv(r)) /\ FileInv

\* What has been written stays written.
DoneGrows == \A b \in Batch : done[b] \subseteq done'[b]

\* All before the last but one are all.
LEMMA AllWritten ==
    ASSUME Size \in Nat, BatchTypes, NEW b \in Batch, NEW i \in 1..Size + 1, i \notin Mutations,
           WrittenBefore(b, i)
    PROVE  done[b] = Mutations
<1>1. \A m \in Mutations : m < i
  BY SMT DEF Mutations
<1>2. done[b] \subseteq Mutations
  BY DEF BatchTypes
<1> QED
  BY <1>1, <1>2 DEF WrittenBefore

\* What has been written of a batch stays written.
LEMMA WrittenStays ==
    ASSUME BatchTypes', DoneGrows, NEW b \in Batch
    PROVE  /\ \A i : WrittenBefore(b, i) => WrittenBefore(b, i)'
           /\ done[b] = Mutations => done'[b] = Mutations
<1>1. done[b] \subseteq done'[b] /\ done'[b] \subseteq Mutations
  BY DEF DoneGrows, BatchTypes, Mutations
<1> QED
  BY <1>1 DEF WrittenBefore, Mutations

\* The next mutation is written too.
LEMMA WrittenNext ==
    ASSUME Size \in Nat, BatchTypes, BatchTypes', DoneGrows, NEW b \in Batch, NEW i \in 1..Size + 1,
           WrittenBefore(b, i), i \in done'[b]
    PROVE  WrittenBefore(b, i + 1)'
<1>1. \A m \in Mutations : m < i + 1 => m < i \/ m = i
  BY SMT DEF Mutations
<1>2. done[b] \subseteq done'[b]
  BY DEF DoneGrows
<1> QED
  BY <1>1, <1>2 DEF WrittenBefore, Mutations

\* A client that does not move keeps its part of the invariant.
LEMMA ExecuteStays ==
    ASSUME BatchTypes', DoneGrows, NEW b \in Batch, ExecuteInv(b), pc'[b] = pc[b], step'[b] = step[b]
    PROVE  ExecuteInv(b)'
<1>1. \A i : WrittenBefore(b, i) => \A m \in Mutations : m < i => m \in done'[b]
  BY WrittenStays DEF WrittenBefore, Mutations
<1>2. done[b] = Mutations => done'[b] = Mutations
  BY WrittenStays
<1> QED
  BY <1>1, <1>2 DEF ExecuteInv, Mutations, WrittenBefore

\* A replay that does not move, and still has the lease, keeps its part of the invariant.
LEMMA ReplayStays ==
    ASSUME BatchTypes, BatchTypes', DoneGrows, NEW r \in Replayer, ReplayInv(r), replay'[r] = replay[r],
           replay[r].pc # "idle" =>
             lease' /\ \A q \in Replayer : q # r => replay'[q].pc = "idle"
    PROVE  ReplayInv(r)'
<1>0. replay[r].entry \subseteq Batch
  BY DEF BatchTypes, ReplayWork
<1>1. \A b \in replay[r].entry : \A i :
        WrittenBefore(b, i) => \A m \in Mutations : m < i => m \in done'[b]
  BY <1>0, WrittenStays DEF WrittenBefore, Mutations
<1>2. \A b \in replay[r].entry : done[b] = Mutations => done'[b] = Mutations
  BY <1>0, WrittenStays
<1> QED
  BY <1>1, <1>2 DEF ReplayInv, Mutations, WrittenBefore

\* A step of one execute_batch.
LEMMA BatchInvByBatch ==
    ASSUME BatchInv, BatchTypes', DoneGrows, UNCHANGED <<replay, lease>>, NEW b \in Batch,
           \A c \in Batch : c # b => pc'[c] = pc[c] /\ step'[c] = step[c] /\ (c \in files => c \in files'),
           ExecuteInv(b)', pc'[b] # "new" /\ b \notin files' => done'[b] = Mutations
    PROVE  BatchInv'
<1>1. ASSUME NEW c \in Batch PROVE ExecuteInv(c)'
  BY <1>1, ExecuteStays DEF BatchInv
<1>2. ASSUME NEW r \in Replayer PROVE ReplayInv(r)'
  <2>1. ReplayInv(r)
    BY <1>2 DEF BatchInv
  <2>2. replay[r].pc # "idle" => lease' /\ \A q \in Replayer : q # r => replay'[q].pc = "idle"
    BY <1>2, <2>1 DEF ReplayInv
  <2> QED
    BY <1>2, <2>1, <2>2, ReplayStays DEF BatchInv
<1>3. FileInv'
  <2>1. \A c \in Batch : done[c] = Mutations => done'[c] = Mutations
    BY WrittenStays
  <2> QED
    BY <2>1 DEF FileInv, BatchInv, Mutations
<1> QED
  BY <1>1, <1>2, <1>3 DEF BatchInv

\* A step of one replay.
LEMMA BatchInvByReplay ==
    ASSUME BatchInv, BatchTypes', DoneGrows, pc' = pc, step' = step, NEW r \in Replayer,
           \A q \in Replayer : q # r => replay'[q] = replay[q] /\ replay[q].pc = "idle",
           ReplayInv(r)',
           \A b \in Batch : b \in files /\ b \notin files' => done'[b] = Mutations
    PROVE  BatchInv'
<1>1. ASSUME NEW c \in Batch PROVE ExecuteInv(c)'
  BY <1>1, ExecuteStays DEF BatchInv
<1>2. ASSUME NEW q \in Replayer PROVE ReplayInv(q)'
  BY <1>2, ReplayStays DEF BatchInv
<1>3. FileInv'
  <2>1. \A c \in Batch : done[c] = Mutations => done'[c] = Mutations
    BY WrittenStays
  <2> QED
    BY <2>1 DEF FileInv, BatchInv, Mutations
<1> QED
  BY <1>1, <1>2, <1>3 DEF BatchInv

\* execute_batch: the file first, the mutations in order, the file last.
LEMMA BatchInvExecute ==
    ASSUME Size \in Nat, ~PersistFails, BatchInv, NEW b \in Batch, ExecuteBatch(b)
    PROVE  BatchInv'
<1> USE DEF BatchInv
<1>0. \A c \in Batch : done[c] \subseteq Mutations
  BY DEF BatchTypes
<1>1. CASE StoreFile(b)
  <2> USE <1>1 DEF StoreFile
  <2>1. files' = files \cup {b}
    BY DEF Persist
  <2>2. pc'[b] = "stored" /\ \A c \in Batch : c # b => pc'[c] = pc[c]
    BY DEF BatchTypes
  <2>3. BatchTypes'
    BY <2>1 DEF BatchTypes, Mutations, ReplayWork
  <2>4. DoneGrows
    BY DEF DoneGrows
  <2>5. ExecuteInv(b)'
    BY <2>2 DEF ExecuteInv
  <2> QED
    BY <2>1, <2>2, <2>3, <2>4, <2>5, BatchInvByBatch
<1>2. CASE StoreEntry(b)
  <2> USE <1>2 DEF StoreEntry
  <2>1. step'[b] = 1
    BY DEF ExecuteInv
  <2>2. pc'[b] = "execute" /\ \A c \in Batch : c # b => pc'[c] = pc[c]
    BY DEF BatchTypes
  <2>3. BatchTypes'
    BY DEF BatchTypes, Mutations, ReplayWork
  <2>4. DoneGrows
    BY DEF DoneGrows
  <2>5. \A m \in Mutations : ~(m < 1)
    BY SMT DEF Mutations
  <2>6. ExecuteInv(b)'
    BY <2>1, <2>2, <2>5 DEF ExecuteInv, WrittenBefore, Mutations
  <2>7. b \notin files' => done'[b] = Mutations
    BY DEF FileInv
  <2> QED
    BY <2>2, <2>3, <2>4, <2>6, <2>7, BatchInvByBatch
<1>3. CASE Execute(b)
  <2>0. /\ pc[b] = "execute" /\ step[b] \in Mutations
        /\ UNCHANGED <<entries, files, lease, replay, crashes, errors>>
    BY <1>3 DEF Execute
  <2>a. WrittenBefore(b, step[b])
    BY <2>0 DEF ExecuteInv
  <2>1. CASE /\ done' = [done EXCEPT ![b] = @ \cup {step[b]}]
             /\ step' = [step EXCEPT ![b] = @ + 1] /\ UNCHANGED pc
    <3>1. /\ done'[b] = done[b] \cup {step[b]} /\ step'[b] = step[b] + 1
          /\ \A c \in Batch : c # b => done'[c] = done[c] /\ step'[c] = step[c]
      BY <2>1 DEF BatchTypes
    <3>2. DoneGrows
      BY <3>1 DEF DoneGrows
    <3>3. step[b] + 1 \in 1..Size + 1
      BY SMT, <2>0 DEF Mutations
    <3>4. BatchTypes'
      <4>1. step' \in [Batch -> 1..Size + 1]
        BY <2>1, <3>3 DEF BatchTypes
      <4>2. done' \in [Batch -> SUBSET Mutations]
        BY <2>0, <2>1 DEF BatchTypes
      <4> QED
        BY <2>0, <2>1, <4>1, <4>2 DEF BatchTypes, Mutations, ReplayWork
    <3>5. \A m \in Mutations : m < step'[b] => m \in done'[b]
      <4> DEFINE i == step[b]
      <4>1. i \in 1..Size + 1 /\ WrittenBefore(b, i) /\ i \in done'[b] /\ step'[b] = i + 1
        BY <2>a, <3>1 DEF BatchTypes
      <4> HIDE DEF i
      <4>2. \A m \in Mutations : m < i + 1 => m < i \/ m = i
        BY SMT, <4>1 DEF Mutations
      <4> QED
        BY <3>2, <4>1, <4>2 DEF WrittenBefore, DoneGrows
    <3>6. ExecuteInv(b)'
      BY <2>0, <2>1, <3>5 DEF ExecuteInv, WrittenBefore, Mutations
    <3>7. b \notin files' => done'[b] = Mutations
      <4>1. b \notin files' => done[b] = Mutations
        BY <2>0 DEF FileInv
      <4> QED
        BY <3>2, <3>4, <4>1, WrittenStays
    <3> QED
      BY <2>0, <2>1, <3>1, <3>2, <3>4, <3>6, <3>7, BatchInvByBatch
  <2>2. CASE pc' = [pc EXCEPT ![b] = "failed"] /\ UNCHANGED <<done, step>>
    <3>1. pc'[b] = "failed" /\ \A c \in Batch : c # b => pc'[c] = pc[c]
      BY <2>2 DEF BatchTypes
    <3>2. DoneGrows
      BY <2>2 DEF DoneGrows
    <3>3. BatchTypes'
      BY <2>0, <2>2 DEF BatchTypes, Mutations, ReplayWork
    <3>4. ExecuteInv(b)'
      BY <3>1 DEF ExecuteInv
    <3>5. b \notin files' => done'[b] = Mutations
      BY <2>0, <2>2 DEF FileInv
    <3> QED
      BY <2>0, <2>2, <3>1, <3>2, <3>3, <3>4, <3>5, BatchInvByBatch
  <2> QED
    BY <1>3, <2>1, <2>2 DEF Execute
<1>4. CASE RemoveEntry(b)
  <2> USE <1>4 DEF RemoveEntry
  <2>1. pc'[b] \in {"remove_file", "ok"} /\ \A c \in Batch : c # b => pc'[c] = pc[c]
    BY DEF BatchTypes
  <2>2. BatchTypes'
    BY DEF BatchTypes, Mutations, ReplayWork
  <2>3. DoneGrows
    BY DEF DoneGrows
  <2>4. step[b] \in 1..Size + 1 /\ step[b] \notin Mutations /\ WrittenBefore(b, step[b])
    BY DEF BatchTypes, ExecuteInv
  <2>5. done'[b] = Mutations
    BY <2>4, AllWritten
  <2>6. ExecuteInv(b)'
    BY <2>1, <2>5 DEF ExecuteInv, Mutations
  <2> QED
    BY <2>1, <2>2, <2>3, <2>5, <2>6, BatchInvByBatch
<1>5. CASE RemoveFile(b)
  <2> USE <1>5 DEF RemoveFile
  <2>1. pc'[b] = "ok" /\ \A c \in Batch : c # b => pc'[c] = pc[c]
    BY DEF BatchTypes
  <2>2. BatchTypes'
    BY DEF BatchTypes, Mutations, ReplayWork
  <2>3. DoneGrows
    BY DEF DoneGrows
  <2>4. done'[b] = Mutations
    BY DEF ExecuteInv
  <2>5. ExecuteInv(b)'
    BY <2>1 DEF ExecuteInv
  <2> QED
    BY <2>1, <2>2, <2>3, <2>4, <2>5, BatchInvByBatch
<1> QED
  BY <1>1, <1>2, <1>3, <1>4, <1>5 DEF ExecuteBatch

\* While a replay runs, no other does.
LEMMA OthersIdle ==
    ASSUME BatchInv, NEW r \in Replayer, replay[r].pc # "idle" \/ ~lease
    PROVE  \A q \in Replayer : q # r => replay[q].pc = "idle"
BY DEF BatchInv, ReplayInv

\* Every field of a replay's record.
LEMMA ReplayFields ==
    ASSUME BatchTypes, NEW r \in Replayer
    PROVE  /\ replay[r] \in ReplayWork /\ replay[r].todo \subseteq Batch /\ replay[r].entry \subseteq Batch
           /\ replay[r].step \in 1..Size + 1 /\ replay[r].ok \in BOOLEAN
           /\ replay[r].count \in 0..RateLimit
BY DEF BatchTypes, ReplayWork

\* The lease, the mutations that a replay repeats, and what it removes.
LEMMA BatchInvReplay ==
    ASSUME Size \in Nat, RateLimit \in Nat, BatchInv, NEW r \in Replayer, ReplayBatchlog(r)
    PROVE  BatchInv'
<1>0. BatchTypes /\ FileInv /\ ReplayInv(r) /\ \A c \in Batch : done[c] \subseteq Mutations
  BY DEF BatchTypes, BatchInv
<1>a. 1 \in 1..Size + 1 /\ 0 \in 0..RateLimit
  BY SMT
<1>b. ASSUME NEW w, replay' = [replay EXCEPT ![r] = w]
      PROVE  replay'[r] = w /\ \A q \in Replayer : q # r => replay'[q] = replay[q]
  BY <1>0, <1>b DEF BatchTypes
<1>c. ASSUME NEW w \in ReplayWork, replay' = [replay EXCEPT ![r] = w]
      PROVE  replay' \in [Replayer -> ReplayWork]
  BY <1>0, <1>c DEF BatchTypes
<1>d. IdleReplay \in ReplayWork /\ IdleReplay.pc = "idle" /\ IdleReplay.entry = {}
  BY <1>a DEF IdleReplay, ReplayWork
<1>1. CASE BeginReplay(r)
  <2>1. PICK expired \in (SUBSET entries) \ {{}} :
          replay' = [replay EXCEPT ![r] = [IdleReplay EXCEPT !.pc = "pick", !.todo = expired]]
    BY <1>1 DEF BeginReplay
  <2> DEFINE w == [IdleReplay EXCEPT !.pc = "pick", !.todo = expired]
             v == [IdleReplay EXCEPT !.pc = "pick"]
  <2>2. ~lease /\ lease' = TRUE /\ UNCHANGED <<pc, step, done, entries, files, crashes, errors>>
    BY <1>1 DEF BeginReplay, LeaseIsFree
  <2>3. v \in ReplayWork /\ v.pc = "pick" /\ v.entry = {}
    BY SMT, <1>d DEF ReplayWork
  <2>a. w = [v EXCEPT !.todo = expired] /\ expired \subseteq Batch
    BY <1>0 DEF BatchTypes
  <2> HIDE DEF w, v
  <2>4. w \in ReplayWork /\ w.pc = "pick" /\ w.entry = {}
    BY SMT, <2>3, <2>a DEF ReplayWork
  <2>5. replay'[r] = w /\ \A q \in Replayer : q # r => replay'[q] = replay[q]
    BY <1>b, <2>1 DEF w
  <2>6. BatchTypes'
    BY <1>0, <1>c, <2>1, <2>2, <2>4 DEF BatchTypes, Mutations, w
  <2>7. \A q \in Replayer : q # r => replay[q].pc = "idle"
    BY <2>2, OthersIdle
  <2>8. ReplayInv(r)'
    BY <2>2, <2>4, <2>5, <2>7 DEF ReplayInv
  <2>9. DoneGrows
    BY <2>2 DEF DoneGrows
  <2> QED
    BY <2>2, <2>5, <2>6, <2>7, <2>8, <2>9, BatchInvByReplay
<1>2. CASE PickEntry(r)
  <2>1. PICK b \in replay[r].todo :
          \/ /\ replay[r].count < RateLimit
             /\ replay' = [replay EXCEPT ![r] = [pc |-> "write", todo |-> replay[r].todo \ {b}, entry |-> {b},
                                                 step |-> 1, ok |-> TRUE, count |-> replay[r].count]]
          \/ replay' = [replay EXCEPT ![r] = [replay[r] EXCEPT !.todo = replay[r].todo \ {b}]]
    BY <1>0, <1>2 DEF PickEntry, BatchTypes
  <2>2. replay[r].pc = "pick" /\ UNCHANGED <<pc, step, done, entries, files, lease, crashes, errors>>
    BY <1>2 DEF PickEntry
  <2>3. PICK w \in ReplayWork :
          /\ replay' = [replay EXCEPT ![r] = w]
          /\ w.pc = "pick" \/ (w.pc = "write" /\ w.step = 1 /\ w.count < RateLimit)
          /\ w.entry = {b} \/ w.entry = replay[r].entry
    <3> DEFINE v == [pc |-> "write", todo |-> replay[r].todo \ {b}, entry |-> {b},
                     step |-> 1, ok |-> TRUE, count |-> replay[r].count]
               u == [replay[r] EXCEPT !.todo = replay[r].todo \ {b}]
    <3>0. b \in Batch /\ replay[r] \in ReplayWork
      BY <1>0, ReplayFields
    <3>1. v \in ReplayWork /\ v.pc = "write" /\ v.step = 1 /\ v.count = replay[r].count /\ v.entry = {b}
      BY SMT, <1>a, <3>0 DEF ReplayWork
    <3>2. u \in ReplayWork /\ u.pc = "pick" /\ u.entry = replay[r].entry
      BY SMT, <2>2, <3>0 DEF ReplayWork
    <3>3. CASE replay[r].count < RateLimit /\ replay' = [replay EXCEPT ![r] = v]
      BY <3>1, <3>3
    <3>4. CASE replay' = [replay EXCEPT ![r] = u]
      BY <3>2, <3>4
    <3> QED
      BY <2>1, <3>3, <3>4
  <2>4. replay'[r] = w /\ \A q \in Replayer : q # r => replay'[q] = replay[q]
    BY <1>b, <2>3
  <2>5. BatchTypes'
    BY <1>0, <1>c, <2>2, <2>3 DEF BatchTypes, Mutations
  <2>6. \A q \in Replayer : q # r => replay[q].pc = "idle"
    BY <2>2, OthersIdle
  <2>7. lease
    BY <1>0, <2>2 DEF ReplayInv
  <2>8. \A m \in Mutations : ~(m < 1)
    BY SMT DEF Mutations
  <2>a. \A c, d \in w.entry : c = d
    BY <1>0, <2>3 DEF ReplayInv
  <2>9. ReplayInv(r)'
    BY <2>2, <2>a, <2>3, <2>4, <2>6, <2>7, <2>8 DEF ReplayInv, WrittenBefore, Mutations
  <2>10. DoneGrows
    BY <2>2 DEF DoneGrows
  <2> QED
    BY <2>2, <2>4, <2>5, <2>6, <2>9, <2>10, BatchInvByReplay
<1>3. CASE ReplayMutation(r)
  <2> DEFINE i == replay[r].step
  <2>1. PICK b \in replay[r].entry, ok \in BOOLEAN :
          /\ errors' = IF ok THEN errors ELSE errors + 1
          /\ done' = IF ok THEN [done EXCEPT ![b] = @ \cup {i}] ELSE done
          /\ replay' = [replay EXCEPT ![r] = [@ EXCEPT !.step = i + 1, !.ok = replay[r].ok /\ ok]]
    BY <1>3 DEF ReplayMutation
  <2>2. /\ replay[r].pc = "write" /\ i \in Mutations /\ errors' <= MaxErrors
        /\ UNCHANGED <<pc, step, entries, files, lease, crashes>>
    BY <1>3 DEF ReplayMutation
  <2>3. replay[r] \in ReplayWork /\ b \in Batch /\ replay[r].entry \subseteq Batch
    BY <1>0, <2>1, ReplayFields
  <2>4. i + 1 \in 1..Size + 1 /\ \A m \in Mutations : m < i + 1 => m < i \/ m = i
    BY SMT, <2>2 DEF Mutations
  <2> DEFINE v == [replay[r] EXCEPT !.step = i + 1]
             w == [v EXCEPT !.ok = replay[r].ok /\ ok]
  <2>5. /\ v \in ReplayWork /\ v.pc = "write" /\ v.entry = replay[r].entry /\ v.step = i + 1
        /\ v.ok = replay[r].ok /\ v.count = replay[r].count
    BY SMT, <2>2, <2>3, <2>4 DEF ReplayWork
  <2>6. replay' = [replay EXCEPT ![r] = w]
    BY <2>1
  <2> HIDE DEF v, i
  <2>7. (replay[r].ok /\ ok) \in BOOLEAN
    OBVIOUS
  <2>8. /\ w \in ReplayWork /\ w.pc = "write" /\ w.entry = v.entry /\ w.step = v.step
        /\ w.ok = (replay[r].ok /\ ok) /\ w.count = v.count
    BY SMT, <2>5, <2>7 DEF ReplayWork
  <2> HIDE DEF w
  <2>9. replay'[r] = w /\ \A q \in Replayer : q # r => replay'[q] = replay[q]
    BY <1>b, <2>6
  <2>10. DoneGrows /\ done' \in [Batch -> SUBSET Mutations]
    BY <1>0, <2>1, <2>2, <2>3 DEF DoneGrows, BatchTypes, i
  <2>11. errors' \in 0..MaxErrors
    <3>1. errors \in 0..MaxErrors /\ (errors' = errors \/ errors' = errors + 1)
      BY <1>0, <2>1 DEF BatchTypes
    <3> QED
      BY SMT, <2>2, <3>1
  <2>12. BatchTypes'
    BY <1>0, <1>c, <2>2, <2>6, <2>8, <2>10, <2>11 DEF BatchTypes, Mutations
  <2>13. \A q \in Replayer : q # r => replay[q].pc = "idle"
    BY <2>2, OthersIdle
  <2>14. lease /\ replay[r].count < RateLimit
    BY <1>0, <2>2 DEF ReplayInv
  <2>15. ASSUME replay'[r].ok, NEW c \in replay'[r].entry, NEW m \in Mutations, m < replay'[r].step
         PROVE  m \in done'[c]
    <3>1. replay[r].ok /\ ok /\ c \in replay[r].entry /\ m < i + 1
      BY <2>5, <2>8, <2>9, <2>15
    <3>2. WrittenBefore(c, i)
      BY <1>0, <2>2, <2>5, <3>1 DEF ReplayInv, i
    <3>3. c = b
      BY <1>0, <3>1 DEF ReplayInv
    <3>4. i \in done'[c]
      BY <1>0, <2>1, <2>3, <3>1, <3>3 DEF BatchTypes, i
    <3> QED
      BY <2>3, <2>4, <2>10, <3>1, <3>2, <3>4 DEF WrittenBefore, DoneGrows
  <2>16. ReplayInv(r)'
    BY <1>0, <2>2, <2>5, <2>8, <2>9, <2>13, <2>14, <2>15 DEF ReplayInv, WrittenBefore, Mutations
  <2> QED
    BY <2>2, <2>9, <2>10, <2>12, <2>13, <2>16, BatchInvByReplay
<1>4. CASE FinishEntry(r)
  <2> DEFINE at == IF AllReplayed(r) /\ replay[r].entry \subseteq entries THEN "remove_file" ELSE "pick"
             v == [replay[r] EXCEPT !.pc = at]
             w == [v EXCEPT !.count = replay[r].count + 1]
  <2>1. replay' = [replay EXCEPT ![r] = w]
    BY <1>4 DEF FinishEntry
  <2>2. /\ replay[r].pc = "write" /\ replay[r].step \notin Mutations
        /\ entries' \subseteq entries /\ UNCHANGED <<pc, step, done, files, lease, crashes, errors>>
    BY <1>4 DEF FinishEntry
  <2>3. replay[r] \in ReplayWork /\ replay[r].entry \subseteq Batch
    BY <1>0, ReplayFields
  <2>4. at \in {"remove_file", "pick"} /\ (at = "remove_file" => replay[r].ok)
    BY DEF AllReplayed
  <2>5. replay[r].count + 1 \in 0..RateLimit
    <3>1. replay[r].count \in 0..RateLimit /\ replay[r].count < RateLimit
      BY <1>0, <2>2, <2>3 DEF ReplayInv, ReplayWork
    <3> QED
      BY SMT, <3>1
  <2> HIDE DEF at
  <2>6. v \in ReplayWork /\ v.pc = at /\ v.entry = replay[r].entry
    BY SMT, <2>3, <2>4 DEF ReplayWork
  <2> HIDE DEF v
  <2>7. w \in ReplayWork /\ w.pc = at /\ w.entry = replay[r].entry
    BY SMT, <2>5, <2>6 DEF ReplayWork
  <2> HIDE DEF w
  <2>8. replay'[r] = w /\ \A q \in Replayer : q # r => replay'[q] = replay[q]
    BY <1>b, <2>1
  <2>9. BatchTypes'
    BY <1>0, <1>c, <2>1, <2>2, <2>7 DEF BatchTypes, Mutations
  <2>10. \A q \in Replayer : q # r => replay[q].pc = "idle"
    BY <2>2, OthersIdle
  <2>11. lease /\ \A c, d \in w.entry : c = d
    BY <1>0, <2>2, <2>7 DEF ReplayInv
  <2>12. at = "remove_file" => \A b \in w.entry : done[b] = Mutations
    <3>1. ASSUME replay[r].ok, NEW b \in replay[r].entry PROVE done[b] = Mutations
      <4>1. b \in Batch /\ WrittenBefore(b, replay[r].step) /\ replay[r].step \in 1..Size + 1
        BY <1>0, <2>2, <2>3, <3>1 DEF ReplayInv, ReplayWork
      <4> QED
        BY <1>0, <2>2, <4>1, AllWritten
    <3> QED
      BY <2>4, <2>7, <3>1
  <2>13. ReplayInv(r)'
    BY <2>2, <2>4, <2>7, <2>8, <2>10, <2>11, <2>12 DEF ReplayInv, Mutations
  <2>14. DoneGrows
    BY <2>2 DEF DoneGrows
  <2> QED
    BY <2>2, <2>8, <2>9, <2>10, <2>13, <2>14, BatchInvByReplay
<1>5. CASE ReplayRemoveFile(r)
  <2> DEFINE w == [replay[r] EXCEPT !.pc = "pick"]
  <2>1. /\ replay[r].pc = "remove_file" /\ files' = files \ replay[r].entry
        /\ replay' = [replay EXCEPT ![r] = w] /\ UNCHANGED <<pc, step, done, entries, lease, crashes, errors>>
    BY SMT, <1>0, <1>5 DEF ReplayRemoveFile, BatchTypes
  <2>2. replay[r] \in ReplayWork
    BY <1>0, ReplayFields
  <2>3. w \in ReplayWork /\ w.pc = "pick" /\ w.entry = replay[r].entry
    BY SMT, <2>2 DEF ReplayWork
  <2> HIDE DEF w
  <2>4. replay'[r] = w /\ \A q \in Replayer : q # r => replay'[q] = replay[q]
    BY <1>b, <2>1
  <2>5. BatchTypes'
    BY <1>0, <1>c, <2>1, <2>3 DEF BatchTypes, Mutations
  <2>6. \A q \in Replayer : q # r => replay[q].pc = "idle"
    BY <2>1, OthersIdle
  <2>7. lease /\ (\A c, d \in w.entry : c = d) /\ \A b \in replay[r].entry : done[b] = Mutations
    BY <1>0, <2>1, <2>3 DEF ReplayInv
  <2>8. ReplayInv(r)'
    BY <2>1, <2>3, <2>4, <2>6, <2>7 DEF ReplayInv
  <2>9. DoneGrows /\ \A b \in Batch : b \in files /\ b \notin files' => done'[b] = Mutations
    BY <2>1, <2>7 DEF DoneGrows
  <2> QED
    BY <2>1, <2>4, <2>5, <2>6, <2>8, <2>9, BatchInvByReplay
<1>6. CASE EndReplay(r)
  <2>1. /\ replay[r].pc = "pick" /\ lease' = FALSE /\ replay' = [replay EXCEPT ![r] = IdleReplay]
        /\ UNCHANGED <<pc, step, done, entries, files, crashes, errors>>
    BY <1>6 DEF EndReplay
  <2>2. replay'[r] = IdleReplay /\ \A q \in Replayer : q # r => replay'[q] = replay[q]
    BY <1>b, <2>1
  <2>3. BatchTypes'
    BY <1>0, <1>c, <1>d, <2>1 DEF BatchTypes, Mutations
  <2>4. \A q \in Replayer : q # r => replay[q].pc = "idle"
    BY <2>1, OthersIdle
  <2>5. ReplayInv(r)'
    BY <1>d, <2>2 DEF ReplayInv
  <2>6. DoneGrows
    BY <2>1 DEF DoneGrows
  <2> QED
    BY <2>1, <2>2, <2>3, <2>4, <2>5, <2>6, BatchInvByReplay
<1> QED
  BY <1>1, <1>2, <1>3, <1>4, <1>5, <1>6 DEF ReplayBatchlog

\* A restart loads the files: what it forgets is complete, or has not begun.
LEMMA BatchInvRestart ==
    ASSUME Size \in Nat, RateLimit \in Nat, MaxCrashes \in Nat, BatchInv, Restart
    PROVE  BatchInv'
<1>0. BatchTypes /\ FileInv /\ \A b \in Batch : ExecuteInv(b)
  BY DEF BatchInv
<1>1. /\ crashes' = crashes + 1 /\ crashes < MaxCrashes /\ entries' = files /\ lease' = FALSE
      /\ replay' = [r \in Replayer |-> IdleReplay] /\ UNCHANGED <<step, done, files, errors>>
      /\ pc' = [b \in Batch |-> IF pc[b] \in {"new", "ok", "failed"} THEN pc[b] ELSE "lost"]
  BY DEF Restart
<1>2. IdleReplay \in ReplayWork /\ IdleReplay.pc = "idle" /\ IdleReplay.entry = {}
  <2>1. 1 \in 1..Size + 1 /\ 0 \in 0..RateLimit
    BY SMT
  <2> QED
    BY <2>1 DEF IdleReplay, ReplayWork
<1>3. crashes' \in 0..MaxCrashes
  <2>1. crashes \in 0..MaxCrashes
    BY <1>0 DEF BatchTypes
  <2> QED
    BY SMT, <1>1, <2>1
<1>4. \A b \in Batch : \/ pc'[b] = pc[b] /\ pc[b] \in {"new", "ok", "failed"}
                       \/ pc'[b] = "lost" /\ pc[b] # "new"
  BY <1>1
<1>5. BatchTypes'
  <2>1. pc' \in [Batch -> {"new", "stored", "execute", "remove_file", "ok", "failed", "lost"}]
    BY <1>1
  <2>2. replay' \in [Replayer -> ReplayWork]
    BY <1>1, <1>2
  <2> QED
    BY <1>0, <1>1, <1>3, <2>1, <2>2 DEF BatchTypes, Mutations
<1>6. ASSUME NEW b \in Batch PROVE ExecuteInv(b)'
  BY <1>0, <1>1, <1>4, <1>6 DEF ExecuteInv
<1>7. ASSUME NEW r \in Replayer PROVE ReplayInv(r)'
  <2>1. replay'[r] = IdleReplay
    BY <1>1
  <2> QED
    BY <1>2, <2>1 DEF ReplayInv
<1>8. FileInv'
  BY <1>0, <1>1, <1>4 DEF FileInv, Mutations
<1> QED
  BY <1>5, <1>6, <1>7, <1>8 DEF BatchInv

\* Nothing is logged before the first batch.
LEMMA BatchInvInit ==
    ASSUME Size \in Nat, RateLimit \in Nat, MaxCrashes \in Nat, MaxErrors \in Nat, BatchlogInit
    PROVE  BatchInv
<1> USE DEF BatchlogInit
<1>1. 1 \in 1..Size + 1 /\ 0 \in 0..RateLimit /\ 0 \in 0..MaxCrashes /\ 0 \in 0..MaxErrors
  BY SMT
<1>2. IdleReplay \in ReplayWork /\ IdleReplay.pc = "idle" /\ IdleReplay.entry = {}
  BY <1>1 DEF IdleReplay, ReplayWork
<1>3. BatchTypes
  BY <1>1, <1>2 DEF BatchTypes
<1>4. \A b \in Batch : ExecuteInv(b)
  BY DEF ExecuteInv
<1>5. \A r \in Replayer : replay[r] = IdleReplay
  OBVIOUS
<1>6. \A r \in Replayer : ReplayInv(r)
  BY <1>2, <1>5 DEF ReplayInv
<1>7. FileInv
  BY DEF FileInv
<1> QED
  BY <1>3, <1>4, <1>6, <1>7 DEF BatchInv

\* Every step of clients, replays and crashes keeps the invariant of the batchlog.
LEMMA BatchInvStep ==
    ASSUME Size \in Nat, RateLimit \in Nat, MaxCrashes \in Nat, ~PersistFails,
           BatchInv, [BatchlogNext]_batches
    PROVE  BatchInv'
<1>1. CASE UNCHANGED batches
  <2> USE <1>1 DEF batches
  <2>1. BatchTypes'
    BY DEF BatchInv, BatchTypes, Mutations
  <2>2. \A b \in Batch : ExecuteInv(b)'
    BY DEF BatchInv, ExecuteInv, WrittenBefore, Mutations
  <2>3. \A r \in Replayer : ReplayInv(r)'
    BY DEF BatchInv, ReplayInv, WrittenBefore, Mutations
  <2>4. FileInv'
    BY DEF BatchInv, FileInv, Mutations
  <2> QED
    BY <2>1, <2>2, <2>3, <2>4 DEF BatchInv
<1> QED
  BY <1>1, BatchInvExecute, BatchInvReplay, BatchInvRestart DEF BatchlogNext

\* Of replays of the batchlog no two run at a time, whoever calls replay_batchlog and
\* whenever, and each keeps its rate limit (replay_in_progress).
THEOREM ReplaysTakeTurns ==
    ASSUME Size \in Nat, RateLimit \in Nat, MaxCrashes \in Nat, MaxErrors \in Nat, ~PersistFails
    PROVE  BatchlogSpec => []BatchlogTypeOK
<1>1. BatchInv => BatchlogTypeOK
  <2> SUFFICES ASSUME BatchInv PROVE BatchlogTypeOK
    OBVIOUS
  <2> DEFINE busy == {r \in Replayer : replay[r].pc # "idle"}
  <2>1. \A r, q \in busy : r = q
    BY DEF BatchInv, ReplayInv
  <2>2. Cardinality(busy) <= 1
    <3>1. CASE busy = {}
      BY SMT, <3>1, FS_EmptySet
    <3>2. CASE busy # {}
      <4>1. PICK r : busy = {r}
        BY <2>1, <3>2
      <4> HIDE DEF busy
      <4>2. Cardinality(busy) = 1
        BY <4>1, FS_Singleton
      <4> QED
        BY SMT, <4>2
    <3> QED
      BY <3>1, <3>2
  <2>3. \A r \in Replayer :
          /\ replay[r].pc \in {"idle", "pick", "write", "remove_file"}
          /\ replay[r].todo \subseteq Batch /\ replay[r].entry \subseteq Batch
          /\ replay[r].step \in 1 .. Size + 1 /\ replay[r].ok \in BOOLEAN
          /\ replay[r].count \in 0 .. RateLimit
    BY DEF BatchInv, BatchTypes, ReplayWork
  <2> QED
    BY <2>2, <2>3 DEF BatchInv, BatchTypes, BatchlogTypeOK
<1> QED
  BY <1>1, BatchInvInit, BatchInvStep, PTL DEF BatchlogSpec

\* A batch whose entry is gone, from memory and from disk, is complete, however many
\* batches and replays there are, whatever fails, and however often the process restarts
\* (store, remove, with_persistence_dir).  An entry file that could not be written is
\* logged and ignored by persist_entry: that case is left out.
THEOREM BatchesAreAllOrLogged ==
    ASSUME Size \in Nat, RateLimit \in Nat, MaxCrashes \in Nat, MaxErrors \in Nat, ~PersistFails
    PROVE  BatchlogSpec => []AllOrLogged
<1>1. BatchInv => AllOrLogged
  BY DEF BatchInv, FileInv, AllOrLogged
<1> QED
  BY <1>1, BatchInvInit, BatchInvStep, PTL DEF BatchlogSpec

-----------------------------------------------------------------------------
\* Streams

TaskRecord ==
    [at : {"waiting", "next", "send", "complete", "closing", "done"},
     transfer : {{}} \cup {{t} : t \in Transfer}, seq : Nat, retries : 0 .. MaxRetries, ok : BOOLEAN]

Handler == [message : ChunkMessage, data : SUBSET Nat, at : {"write", "remove"}]

Buffer == [chunks : SUBSET Nat, expected_last : Int]

BufferOK(b, t) == b \in Buffer /\ b.chunks \subseteq Whole(t) /\ b.expected_last \in {-1, Chunks[t] - 1}

\* What the coordinator and the tasks keep: a task is at a chunk of its transfer, and so
\* are the chunks on their way.
SendInv ==
    /\ task \in [Session -> TaskRecord]
    /\ \A s \in Session : task[s].at = "send" => \A t \in task[s].transfer : task[s].seq \in Whole(t)
    /\ future \in [Session -> {"None", "Streaming", "Complete", "Failed"}]
    /\ sent \subseteq Transfer /\ completes \subseteq Session
    /\ chunks \subseteq ChunkMessage /\ \A m \in chunks : m.sequence \in Whole(m.transfer)

\* What the receiver keeps: what it has assembled is whole, and stays so when the buffer
\* is emptied.
ReceiveInv ==
    /\ spoiled \subseteq Transfer
    /\ DOMAIN buffers = Transfer /\ \A t \in Transfer : BufferOK(buffers[t], t)
    /\ writing \subseteq Handler /\ \A h \in writing : h.data = Whole(h.message.transfer)
    /\ DOMAIN written = Transfer /\ WholeSSTables

StreamConstants ==
    /\ Chunks \in [Transfer -> Nat \ {0}] /\ MaxRetries \in Nat
    /\ Outgoing \in [Session -> SUBSET Transfer]

\* A transfer has as many sequence numbers as chunks, the first and the last among them.
LEMMA WholeIsFinite ==
    ASSUME StreamConstants, NEW t \in Transfer
    PROVE  /\ IsFiniteSet(Whole(t)) /\ Cardinality(Whole(t)) = Chunks[t] /\ Chunks[t] \in Nat \ {0}
           /\ Whole(t) \subseteq Nat /\ 0 \in Whole(t) /\ Chunks[t] - 1 \in Whole(t) /\ Chunks[t] - 1 # -1
<1> DEFINE n == Chunks[t]
<1>1. n \in Nat \ {0} /\ Whole(t) = 0..(n - 1)
  BY DEF StreamConstants, Whole
<1> HIDE DEF n
<1>2. 0 \in Int /\ n - 1 \in Int /\ 0 <= n - 1 /\ (n - 1) - 0 + 1 = n
  BY SMT, <1>1
<1>3. IsFiniteSet(0..(n - 1)) /\ Cardinality(0..(n - 1)) = n
  BY SMT, <1>2, FS_Interval
<1>4. 0..(n - 1) \subseteq Nat /\ 0 \in 0..(n - 1) /\ n - 1 \in 0..(n - 1) /\ n - 1 # -1
  BY SMT, <1>1
<1> QED
  BY <1>1, <1>3, <1>4 DEF n

\* handle_data counts chunks: as many as there are can only be all of them.
LEMMA CompleteIsWhole ==
    ASSUME StreamConstants, NEW t \in Transfer, NEW b, BufferOK(b, t), IsComplete(b)
    PROVE  b.chunks = Whole(t)
<1>1. b.chunks \subseteq Whole(t) /\ b.expected_last = Chunks[t] - 1 /\ Cardinality(b.chunks) = b.expected_last + 1
  BY DEF BufferOK, IsComplete
<1>2. /\ IsFiniteSet(Whole(t)) /\ Cardinality(Whole(t)) = Chunks[t] /\ Chunks[t] \in Nat
  BY WholeIsFinite
<1>3. Cardinality(b.chunks) = Cardinality(Whole(t))
  BY SMT, <1>1, <1>2
<1> QED
  BY <1>1, <1>2, <1>3, FS_Subset

\* A buffer stays well-formed whatever chunk of its transfer is inserted, new or duplicate.
LEMMA InsertedOK ==
    ASSUME StreamConstants, NEW m \in ChunkMessage, m.sequence \in Whole(m.transfer),
           NEW b, BufferOK(b, m.transfer)
    PROVE  BufferOK(Inserted(b, m), m.transfer)
<1>0. m.transfer \in Transfer /\ m.sequence \in Nat
  BY DEF ChunkMessage
<1>1. Whole(m.transfer) \subseteq Nat /\ Chunks[m.transfer] - 1 \in Whole(m.transfer)
  BY <1>0, WholeIsFinite
<1>2. b.chunks \cup {m.sequence} \subseteq Whole(m.transfer)
  BY DEF BufferOK
<1>3. (IF IsLast(m) THEN m.sequence ELSE b.expected_last) \in {-1, Chunks[m.transfer] - 1}
  BY DEF IsLast, BufferOK
<1>4. {-1, Chunks[m.transfer] - 1} \subseteq Int
  BY SMT, <1>1
<1> QED
  BY <1>0, <1>1, <1>2, <1>3, <1>4 DEF BufferOK, Inserted, Buffer

\* A session's task becomes w.
LEMMA TaskBecomes ==
    ASSUME SendInv, NEW s \in Session, NEW w \in TaskRecord, task' = [task EXCEPT ![s] = w],
           w.at = "send" => \A t \in w.transfer : w.seq \in Whole(t)
    PROVE  /\ task' \in [Session -> TaskRecord]
           /\ \A q \in Session : task'[q].at = "send" => \A t \in task'[q].transfer : task'[q].seq \in Whole(t)
<1>1. task' \in [Session -> TaskRecord] /\ task'[s] = w /\ \A q \in Session : q # s => task'[q] = task[q]
  BY DEF SendInv
<1> QED
  BY <1>1 DEF SendInv

\* The message of a task that is sending is one of a chunk of its transfer.
LEMMA DataMessageOK ==
    ASSUME StreamConstants, SendInv, NEW s \in Session, NEW t \in Transfer,
           task[s].at = "send", task[s].transfer = {t}
    PROVE  DataMessage(s, t) \in ChunkMessage /\ DataMessage(s, t).sequence \in Whole(t)
           /\ DataMessage(s, t).transfer = t /\ DataMessage(s, t).sequence = task[s].seq
<1>1. task[s].seq \in Whole(t) /\ task[s].seq \in Nat /\ task[s].retries \in 0..MaxRetries
  BY DEF SendInv, TaskRecord
<1> QED
  BY <1>1 DEF DataMessage, ChunkMessage

\* A step of a session's task keeps what is in flight well-formed.
LEMMA SendInvTask ==
    ASSUME StreamConstants, SendInv, NEW s \in Session, Task(s)
    PROVE  SendInv'
<1>0. /\ task[s] \in TaskRecord /\ chunks \subseteq ChunkMessage /\ sent \subseteq Transfer
      /\ completes \subseteq Session /\ future \in [Session -> {"None", "Streaming", "Complete", "Failed"}]
      /\ \A m \in chunks : m.sequence \in Whole(m.transfer)
      /\ task \in [Session -> TaskRecord]
  BY DEF SendInv
<1>a. ASSUME NEW x \in {"next", "done", "complete", "closing"}, task' = [task EXCEPT ![s].at = x],
             future' \in [Session -> {"None", "Streaming", "Complete", "Failed"}],
             completes' \in {completes, completes \cup {s}}, UNCHANGED <<sent, chunks>>
      PROVE  SendInv'
  <2> DEFINE w == [task[s] EXCEPT !.at = x]
  <2>1. task' = [task EXCEPT ![s] = w]
    BY SMT, <1>0, <1>a
  <2>2. w \in TaskRecord /\ w.at = x
    BY SMT, <1>0 DEF TaskRecord
  <2> HIDE DEF w
  <2>3. w.at # "send"
    BY <2>2
  <2>4. /\ task' \in [Session -> TaskRecord]
        /\ \A q \in Session : task'[q].at = "send" => \A t \in task'[q].transfer : task'[q].seq \in Whole(t)
    BY <2>1, <2>2, <2>3, TaskBecomes
  <2> QED
    BY <1>0, <1>a, <2>4 DEF SendInv, Whole
<1>1. CASE InitAccepted(s)
  <2>1. task' = [task EXCEPT ![s].at = "next"] /\ UNCHANGED <<sent, chunks, completes>>
    BY <1>1 DEF InitAccepted, network
  <2>2. future' \in [Session -> {"None", "Streaming", "Complete", "Failed"}]
    BY <1>0, <1>1 DEF InitAccepted
  <2> QED
    BY <1>a, <2>1, <2>2
<1>2. CASE InitFails(s)
  <2>1. task' = [task EXCEPT ![s].at = "done"] /\ UNCHANGED <<sent, chunks, completes>>
    BY <1>2 DEF InitFails, network
  <2>2. future' \in [Session -> {"None", "Streaming", "Complete", "Failed"}]
    BY <1>0, <1>2 DEF InitFails
  <2> QED
    BY <1>a, <2>1, <2>2
<1>3. CASE AllSent(s)
  <2>1. task' = [task EXCEPT ![s].at = "complete"] /\ UNCHANGED <<sent, chunks, completes, future>>
    BY <1>3 DEF AllSent, network
  <2> QED
    BY <1>0, <1>a, <2>1
<1>4. CASE SendComplete(s)
  <2>1. /\ task' = [task EXCEPT ![s].at = "closing"] /\ UNCHANGED <<sent, chunks, future>>
        /\ completes' = completes \cup {s}
    BY <1>4 DEF SendComplete
  <2> QED
    BY <1>0, <1>a, <2>1
<1>5. CASE CloseSession(s)
  <2>1. task' = [task EXCEPT ![s].at = "done"] /\ UNCHANGED <<sent, chunks, completes>>
    BY <1>5 DEF CloseSession, network
  <2>2. future' \in [Session -> {"None", "Streaming", "Complete", "Failed"}]
    BY <1>0, <1>5 DEF CloseSession
  <2> QED
    BY <1>a, <2>1, <2>2
<1>b. ASSUME NEW w \in TaskRecord, task' = [task EXCEPT ![s] = w],
             w.at = "send" => \A t \in w.transfer : w.seq \in Whole(t),
             UNCHANGED <<future, completes>>, sent' \subseteq Transfer,
             chunks' \subseteq ChunkMessage, \A m \in chunks' : m.sequence \in Whole(m.transfer)
      PROVE  SendInv'
  <2>1. /\ task' \in [Session -> TaskRecord]
        /\ \A q \in Session : task'[q].at = "send" => \A t \in task'[q].transfer : task'[q].seq \in Whole(t)
    BY <1>b, TaskBecomes
  <2> QED
    BY <1>0, <1>b, <2>1 DEF SendInv, Whole
<1>6. CASE OpenFails(s)
  <2> DEFINE v == [task[s] EXCEPT !.at = "complete"]
             w == [v EXCEPT !.ok = FALSE]
  <2>1. task' = [task EXCEPT ![s] = w] /\ UNCHANGED <<future, sent, chunks, completes>>
    BY <1>6 DEF OpenFails, network
  <2>2. v \in TaskRecord /\ v.at = "complete"
    BY SMT, <1>0 DEF TaskRecord
  <2> HIDE DEF v
  <2>3. w \in TaskRecord /\ w.at = "complete"
    BY <2>2 DEF TaskRecord
  <2> HIDE DEF w
  <2>4. w.at # "send"
    BY <2>3
  <2> QED
    BY <1>0, <1>b, <2>1, <2>3, <2>4
<1>7. ASSUME NEW t \in Transfer, OpenSSTable(s, t) PROVE SendInv'
  <2> DEFINE w == [at |-> "send", transfer |-> {t}, seq |-> 0, retries |-> 0, ok |-> task[s].ok]
  <2>1. task' = [task EXCEPT ![s] = w] /\ UNCHANGED <<future, sent, chunks, completes>>
    BY <1>7 DEF OpenSSTable, network
  <2>2. 0 \in Whole(t) /\ task[s].ok \in BOOLEAN
    BY <1>0, WholeIsFinite DEF TaskRecord
  <2>3. 0 \in Nat /\ 0 \in 0..MaxRetries
    BY SMT DEF StreamConstants
  <2>4. w \in TaskRecord /\ w.transfer = {t} /\ w.seq = 0
    BY <2>2, <2>3 DEF TaskRecord
  <2> HIDE DEF w
  <2>5. \A u \in w.transfer : w.seq \in Whole(u)
    BY <2>2, <2>4
  <2> QED
    BY <1>0, <1>b, <2>1, <2>4, <2>5
<1>c. ASSUME NEW t \in Transfer, task[s].at = "send", task[s].transfer = {t},
             chunks' \in {chunks, chunks \cup {DataMessage(s, t)}}
      PROVE  chunks' \subseteq ChunkMessage /\ \A m \in chunks' : m.sequence \in Whole(m.transfer)
  <2>1. /\ DataMessage(s, t) \in ChunkMessage
        /\ DataMessage(s, t).sequence \in Whole(DataMessage(s, t).transfer)
    BY <1>c, DataMessageOK
  <2> QED
    BY <1>0, <1>c, <2>1
<1>8. ASSUME NEW t \in Transfer, SendData(s, t) PROVE SendInv'
  <2>1. /\ task[s].at = "send" /\ task[s].transfer = {t} /\ chunks' = chunks \cup {DataMessage(s, t)}
        /\ UNCHANGED <<future, completes>>
    BY <1>8 DEF SendData
  <2>2. chunks' \subseteq ChunkMessage /\ \A m \in chunks' : m.sequence \in Whole(m.transfer)
    BY <1>c, <2>1
  <2>3. CASE IsLast(DataMessage(s, t))
    <3> DEFINE w == [at |-> "next", transfer |-> {}, seq |-> 0, retries |-> 0, ok |-> task[s].ok]
    <3>1. task' = [task EXCEPT ![s] = w] /\ sent' = sent \cup {t}
      BY <1>8, <2>3 DEF SendData
    <3>2. 0 \in Nat /\ 0 \in 0..MaxRetries
      BY SMT DEF StreamConstants
    <3>3. w \in TaskRecord /\ w.at = "next"
      BY <1>0, <3>2 DEF TaskRecord
    <3> HIDE DEF w
    <3>4. w.at # "send"
      BY <3>3
    <3> QED
      BY <1>0, <1>b, <2>1, <2>2, <3>1, <3>3, <3>4
  <2>4. CASE ~IsLast(DataMessage(s, t))
    <3> DEFINE w == [task[s] EXCEPT !.seq = task[s].seq + 1]
    <3>1. task' = [task EXCEPT ![s].seq = @ + 1] /\ sent' = sent
      BY <1>8, <2>4 DEF SendData
    <3>2. task' = [task EXCEPT ![s] = w]
      BY SMT, <1>0, <3>1
    <3>3. task[s].seq \in Whole(t) /\ task[s].seq # Chunks[t] - 1 /\ Chunks[t] \in Nat
      BY <1>0, <2>1, <2>4, DataMessageOK, WholeIsFinite DEF IsLast
    <3>4. task[s].seq + 1 \in Whole(t) /\ task[s].seq + 1 \in Nat
      BY SMT, <3>3 DEF Whole
    <3>5. w \in TaskRecord /\ w.transfer = {t} /\ w.seq = task[s].seq + 1
      BY SMT, <1>0, <2>1, <3>4 DEF TaskRecord
    <3> HIDE DEF w
    <3>6. \A u \in w.transfer : w.seq \in Whole(u)
      BY <3>4, <3>5
    <3> QED
      BY <1>0, <1>b, <2>1, <2>2, <3>1, <3>2, <3>5, <3>6
  <2> QED
    BY <2>3, <2>4
<1>9. ASSUME NEW t \in Transfer, SendDataFails(s, t) PROVE SendInv'
  <2>1. /\ task[s].at = "send" /\ task[s].transfer = {t} /\ chunks' \in {chunks, chunks \cup {DataMessage(s, t)}}
        /\ UNCHANGED <<future, completes, sent>> /\ RecordFailure(s)
    BY <1>9 DEF SendDataFails
  <2>2. chunks' \subseteq ChunkMessage /\ \A m \in chunks' : m.sequence \in Whole(m.transfer)
    BY <1>c, <2>1
  <2>3. CASE CanRetry(task[s].retries)
    <3> DEFINE w == [task[s] EXCEPT !.retries = task[s].retries + 1]
    <3>1. task' = [task EXCEPT ![s] = w]
      BY <2>1, <2>3 DEF RecordFailure
    <3>2. task[s].retries + 1 \in 0..MaxRetries
      <4>1. task[s].retries \in 0..MaxRetries /\ task[s].retries < MaxRetries
        BY <1>0, <2>3 DEF TaskRecord, CanRetry
      <4> QED
        BY SMT, <4>1 DEF StreamConstants
    <3>3. w \in TaskRecord /\ w.transfer = {t} /\ w.seq = task[s].seq
      BY SMT, <1>0, <2>1, <3>2 DEF TaskRecord
    <3> HIDE DEF w
    <3>4. task[s].seq \in Whole(t)
      BY <2>1, DataMessageOK
    <3>5. \A u \in w.transfer : w.seq \in Whole(u)
      BY <3>3, <3>4
    <3> QED
      BY <1>0, <1>b, <2>1, <2>2, <3>1, <3>3, <3>5
  <2>4. CASE ~CanRetry(task[s].retries)
    <3> DEFINE v == [task[s] EXCEPT !.at = "complete"]
               w == [v EXCEPT !.ok = FALSE]
    <3>1. task' = [task EXCEPT ![s] = w]
      BY <2>1, <2>4 DEF RecordFailure
    <3>2. v \in TaskRecord /\ v.at = "complete"
      BY SMT, <1>0 DEF TaskRecord
    <3> HIDE DEF v
    <3>3. w \in TaskRecord /\ w.at = "complete"
      BY <3>2 DEF TaskRecord
    <3> HIDE DEF w
    <3>4. w.at # "send"
      BY <3>3
    <3> QED
      BY <1>0, <1>b, <2>1, <2>2, <3>1, <3>3, <3>4
  <2> QED
    BY <2>3, <2>4
<1> QED
  BY <1>1, <1>2, <1>3, <1>4, <1>5, <1>6, <1>7, <1>8, <1>9 DEF Task

\* A transfer nothing has arrived of is well-formed.
LEMMA NoBufferOK ==
    ASSUME NEW t \in Transfer
    PROVE  BufferOK(NoBuffer, t)
<1>1. -1 \in Int
  BY SMT
<1> QED
  BY <1>1 DEF BufferOK, NoBuffer, Buffer

\* The buffer of a transfer becomes b.
LEMMA BufferBecomes ==
    ASSUME ReceiveInv, NEW t \in Transfer, NEW b, BufferOK(b, t), buffers' = [buffers EXCEPT ![t] = b]
    PROVE  DOMAIN buffers' = Transfer /\ \A u \in Transfer : BufferOK(buffers'[u], u)
<1>1. DOMAIN buffers' = Transfer /\ buffers'[t] = b /\ \A u \in Transfer : u # t => buffers'[u] = buffers[u]
  BY DEF ReceiveInv
<1> QED
  BY <1>1 DEF ReceiveInv

\* The sending side does not touch what was received.
LEMMA TaskKeepsReceived ==
    ASSUME ReceiveInv, NEW s \in Session, Task(s)
    PROVE  ReceiveInv'
<1>1. UNCHANGED <<buffers, writing, written, spoiled>>
  BY DEF Task, InitAccepted, InitFails, OpenFails, OpenSSTable, SendData, SendDataFails, AllSent,
         SendComplete, CloseSession, receiving, network
<1> QED
  BY <1>1 DEF ReceiveInv, WholeSSTables, Whole, BufferOK

\* The receiving side does not touch the progress of the senders.
LEMMA ReceiverKeepsSending ==
    ASSUME SendInv, Receiver
    PROVE  SendInv'
<1>1. /\ UNCHANGED <<task, future, sent>> /\ chunks' \subseteq chunks /\ completes' \subseteq completes
  BY DEF Receiver, HandleData, LoseData, WriteSSTable, WriteFails, RemoveBuffer, HandleComplete,
         LoseComplete, sending, network
<1> QED
  BY <1>1 DEF SendInv, Whole

\* Whatever chunk or end marker arrives, in whatever order, the receiver keeps its invariant.
LEMMA ReceiveInvStep ==
    ASSUME StreamConstants, SendInv, ReceiveInv, Receiver
    PROVE  ReceiveInv'
<1>0. /\ spoiled \subseteq Transfer /\ DOMAIN buffers = Transfer
      /\ \A t \in Transfer : BufferOK(buffers[t], t)
      /\ writing \subseteq Handler /\ \A h \in writing : h.data = Whole(h.message.transfer)
      /\ DOMAIN written = Transfer /\ WholeSSTables
  BY DEF ReceiveInv
<1>w. ASSUME NEW h \in writing
      PROVE  h \in Handler /\ h.message \in ChunkMessage /\ h.message.transfer \in Transfer
  BY <1>0 DEF Handler, ChunkMessage
<1>1. ASSUME NEW m \in chunks, HandleData(m) PROVE ReceiveInv'
  <2> DEFINE b == Inserted(buffers[m.transfer], m)
             h == [message |-> m, data |-> b.chunks, at |-> "write"]
  <2>1. m \in ChunkMessage /\ m.transfer \in Transfer /\ m.sequence \in Whole(m.transfer)
    BY DEF SendInv, ChunkMessage
  <2>2. BufferOK(b, m.transfer)
    BY <1>0, <2>1, InsertedOK
  <2>3. /\ buffers' = [buffers EXCEPT ![m.transfer] = b]
        /\ writing' = IF IsComplete(b) THEN writing \cup {h} ELSE writing
        /\ UNCHANGED <<written, spoiled>>
    BY <1>1 DEF HandleData
  <2>4. IsComplete(b) => b.chunks = Whole(m.transfer)
    BY <2>1, <2>2, CompleteIsWhole
  <2>5. b.chunks \subseteq Nat
    BY <2>2 DEF BufferOK, Buffer
  <2>6. h \in Handler /\ h.message = m /\ h.data = b.chunks
    BY <2>1, <2>5 DEF Handler
  <2> HIDE DEF b, h
  <2>7. DOMAIN buffers' = Transfer /\ \A t \in Transfer : BufferOK(buffers'[t], t)
    BY <2>1, <2>2, <2>3, BufferBecomes
  <2>8. writing' \subseteq Handler /\ \A g \in writing' : g.data = Whole(g.message.transfer)
    BY <1>0, <2>3, <2>4, <2>6
  <2> QED
    BY <1>0, <2>3, <2>7, <2>8 DEF ReceiveInv, WholeSSTables, Whole, BufferOK
<1>2. ASSUME NEW m \in chunks, LoseData(m) PROVE ReceiveInv'
  <2>1. m.transfer \in Transfer
    BY DEF SendInv, ChunkMessage
  <2>2. spoiled' = spoiled \cup {m.transfer} /\ UNCHANGED <<buffers, writing, written>>
    BY <1>2 DEF LoseData, receiving
  <2> QED
    BY <1>0, <2>1, <2>2 DEF ReceiveInv, WholeSSTables, Whole, BufferOK
<1>3. ASSUME NEW h \in writing, WriteSSTable(h) PROVE ReceiveInv'
  <2> DEFINE g == [h EXCEPT !.at = "remove"]
             t == h.message.transfer
  <2>1. /\ written' = [written EXCEPT ![t] = h.data] /\ writing' = (writing \ {h}) \cup {g}
        /\ UNCHANGED <<buffers, spoiled>>
    BY <1>3 DEF WriteSSTable
  <2>2. h \in Handler /\ t \in Transfer /\ h.data = Whole(t)
    BY <1>0, <1>w
  <2>3. g \in Handler /\ g.message = h.message /\ g.data = h.data
    BY SMT, <2>2 DEF Handler
  <2> HIDE DEF g
  <2>4. DOMAIN written' = Transfer /\ \A u \in Transfer : written'[u] \in {written[u], Whole(u)}
    BY <1>0, <2>1, <2>2
  <2>5. WholeSSTables'
    BY <1>0, <2>4 DEF WholeSSTables, Whole
  <2> QED
    BY <1>0, <2>1, <2>2, <2>3, <2>4, <2>5 DEF ReceiveInv, Whole, BufferOK
<1>4. ASSUME NEW h \in writing, WriteFails(h) PROVE ReceiveInv'
  <2>1. writing' = writing \ {h} /\ spoiled' = spoiled \cup {h.message.transfer} /\ UNCHANGED <<buffers, written>>
    BY <1>4 DEF WriteFails
  <2> QED
    BY <1>0, <1>w, <2>1 DEF ReceiveInv, WholeSSTables, Whole, BufferOK
<1>5. ASSUME NEW h \in writing, RemoveBuffer(h) PROVE ReceiveInv'
  <2>1. /\ buffers' = [buffers EXCEPT ![h.message.transfer] = NoBuffer] /\ writing' = writing \ {h}
        /\ UNCHANGED <<written, spoiled>>
    BY <1>5 DEF RemoveBuffer
  <2>2. BufferOK(NoBuffer, h.message.transfer) /\ h.message.transfer \in Transfer
    BY <1>w, NoBufferOK
  <2>3. DOMAIN buffers' = Transfer /\ \A t \in Transfer : BufferOK(buffers'[t], t)
    BY <2>1, <2>2, BufferBecomes
  <2> QED
    BY <1>0, <2>1, <2>3 DEF ReceiveInv, WholeSSTables, Whole, BufferOK
<1>6. ASSUME NEW s \in completes, HandleComplete(s) PROVE ReceiveInv'
  <2>1. /\ buffers' = [t \in Transfer |-> IF t \in Outgoing[s] THEN NoBuffer ELSE buffers[t]]
        /\ spoiled' = spoiled \cup Unassembled(s) /\ UNCHANGED <<writing, written>>
    BY <1>6 DEF HandleComplete
  <2>2. Unassembled(s) \subseteq Transfer
    BY DEF Unassembled, SendInv, StreamConstants
  <2>3. DOMAIN buffers' = Transfer /\ \A t \in Transfer : buffers'[t] \in {NoBuffer, buffers[t]}
    BY <2>1
  <2>4. \A t \in Transfer : BufferOK(buffers'[t], t)
    BY <1>0, <2>3, NoBufferOK
  <2> QED
    BY <1>0, <2>1, <2>2, <2>3, <2>4 DEF ReceiveInv, WholeSSTables, Whole, BufferOK
<1>7. ASSUME NEW s \in completes, LoseComplete(s) PROVE ReceiveInv'
  <2>1. UNCHANGED <<buffers, writing, written, spoiled>>
    BY <1>7 DEF LoseComplete, receiving
  <2> QED
    BY <1>0, <2>1 DEF ReceiveInv, WholeSSTables, Whole, BufferOK
<1> QED
  BY <1>1, <1>2, <1>3, <1>4, <1>5, <1>6, <1>7 DEF Receiver

\* Before the first chunk the invariant holds.
LEMMA StreamInvInit ==
    ASSUME StreamConstants, StreamingInit
    PROVE  SendInv /\ ReceiveInv
<1>1. 0 \in Nat /\ 0 \in 0..MaxRetries
  BY SMT DEF StreamConstants
<1>2. SendInv
  <2>1. NoTask \in TaskRecord /\ NoTask.at # "send"
    BY <1>1 DEF NoTask, TaskRecord
  <2> QED
    BY <2>1 DEF StreamingInit, SendInv
<1>3. ReceiveInv
  BY NoBufferOK DEF StreamingInit, ReceiveInv, WholeSSTables
<1> QED
  BY <1>2, <1>3

\* Every step of senders and receiver keeps the invariant.
LEMMA StreamInvStep ==
    ASSUME StreamConstants, SendInv, ReceiveInv, [StreamingNext]_streams
    PROVE  (SendInv /\ ReceiveInv)'
<1>1. CASE Receiver
  BY <1>1, ReceiverKeepsSending, ReceiveInvStep
<1>2. ASSUME NEW s \in Session, Task(s) PROVE (SendInv /\ ReceiveInv)'
  BY <1>2, SendInvTask, TaskKeepsReceived
<1>3. CASE UNCHANGED streams
  <2>1. UNCHANGED <<task, future, sent, chunks, completes, buffers, writing, written, spoiled>>
    BY <1>3 DEF streams, sending, network, receiving
  <2> QED
    BY <2>1 DEF SendInv, ReceiveInv, WholeSSTables, Whole, BufferOK
<1> QED
  BY <1>1, <1>2, <1>3 DEF StreamingNext

\* The invariant of streaming holds at all times.
LEMMA StreamingIsInductive ==
    ASSUME StreamConstants
    PROVE  StreamingSpec => [](SendInv /\ ReceiveInv)
<1>1. StreamingInit => SendInv /\ ReceiveInv
  BY StreamInvInit
<1>2. SendInv /\ ReceiveInv /\ [StreamingNext]_streams => (SendInv /\ ReceiveInv)'
  BY StreamInvStep
<1> QED
  BY <1>1, <1>2, PTL DEF StreamingSpec

\* What the tasks of a plan and the peer keep has its type (StreamingTypeOK): above all,
\* no chunk is sent or collected that is not one of its transfer, whatever the losses,
\* copies and retries of send_sstable.
THEOREM StreamsAreWellFormed ==
    ASSUME StreamConstants
    PROVE  StreamingSpec => []StreamingTypeOK
<1>1. SendInv /\ ReceiveInv => StreamingTypeOK
  <2>1. ReceiveInv => \A h \in writing : h.message \in ChunkMessage /\ h.at \in {"write", "remove"}
    BY DEF ReceiveInv, Handler
  <2> QED
    BY <2>1 DEF SendInv, ReceiveInv, TaskRecord, StreamingTypeOK, BufferOK
<1> QED
  BY <1>1, StreamingIsInductive, PTL

\* The peer writes no SSTable from a part of a transfer (handle_data, handle_complete),
\* for any number of sessions, transfers, chunks and retries.
THEOREM SSTablesArriveWhole ==
    ASSUME StreamConstants
    PROVE  StreamingSpec => []WholeSSTables
<1>1. SendInv /\ ReceiveInv => WholeSSTables
  BY DEF ReceiveInv
<1> QED
  BY <1>1, StreamingIsInductive, PTL
=============================================================================
