---------------------------- MODULE RoundPersist ----------------------------
(***************************************************************************)
(* The round across a restart of its node, and the round as clients see    *)
(* it: engine/engine_persist.go and the recovery half of engine/phase.go.  *)
(*                                                                         *)
(* After every operation the room saves MarshalRoundPersistJSON; a node    *)
(* that starts rebuilds the round from it (RestoreRoundFromPersistJSON)    *)
(* and sets its clock going again (InjectRecoveryRuntime).  A crash may    *)
(* also lose the last save: the round then restarts from an earlier state  *)
(* of this very specification, so restarting from the current state        *)
(* reaches every restored state there is.                                  *)
(***************************************************************************)
EXTENDS RoundEngine

-----------------------------------------------------------------------------
(* What is written.  An int that is not set is written as 0: LastDiscard   *)
(* says whether LastDiscardSeat means anything.  Candidates are written    *)
(* only for an open window, the deadline not at all.  The tiles of a hand  *)
(* also tell whether a pending added gang was robbed, the encoded melds    *)
(* which of them are pongs.                                                *)
MarshalRoundPersistJSON ==
    [ Waiting                |-> phase,
      PhaseReason            |-> phase,
      Turn                   |-> turn,
      Step                   |-> step,
      OpeningDrawSeat        |-> openingDrawSeat,
      DealerFirstDiscardOpen |-> dealerFirstDiscardOpen,
      QiangGangWindow        |-> pendingGang # NoSeat,
      PendingGangSeat        |-> pendingGang,
      LastDiscard            |-> lastDiscardSeat # NoSeat,
      LastDiscardSeat        |-> IF lastDiscardSeat # NoSeat THEN lastDiscardSeat ELSE 0,
      ClaimCandidates        |-> IF phase = "Claim" THEN cands ELSE NoCands,
      PendingDraw            |-> pendingDraw,
      CurrentDraw            |-> currentDraw,
      WinEvents              |-> hued,
      SurrenderedSeats       |-> surrendered,
      LastGangFollowUp       |-> lastGangFollowUp,
      LastDiscardAfterGang   |-> lastDiscardAfterGang,
      Hands                  |-> [now |-> hand, robbed |-> robbed, dealt |-> dealt],
      Melds                  |-> [all |-> melds, pongs |-> pongs],
      WallRemaining          |-> wall,
      RuleState              |-> [exchange |-> exchangeSubmitted, missing |-> missingSubmitted,
                                  Selections |-> offers, Direction |-> direction] ]

(* buildRoundStateFromPersist: the fields that are taken as they are.      *)
BuildRoundStateFromPersist(rp) ==
    /\ turn' = rp.Turn /\ step' = rp.Step
    /\ openingDrawSeat' = rp.OpeningDrawSeat
    /\ dealerFirstDiscardOpen' = rp.DealerFirstDiscardOpen
    /\ hued' = rp.WinEvents
    /\ surrendered' = rp.SurrenderedSeats
    /\ lastGangFollowUp' = rp.LastGangFollowUp
    /\ lastDiscardAfterGang' = rp.LastDiscardAfterGang
    /\ hand' = rp.Hands.now /\ robbed' = rp.Hands.robbed /\ dealt' = rp.Hands.dealt
    /\ melds' = rp.Melds.all /\ pongs' = rp.Melds.pongs
    /\ wall' = rp.WallRemaining
    /\ exchangeSubmitted' = rp.RuleState.exchange
    /\ missingSubmitted' = rp.RuleState.missing
    /\ offers' = rp.RuleState.Selections /\ direction' = rp.RuleState.Direction
    /\ closed' = FALSE

DecodeSeatUnasked(rp) ==
    /\ pendingDraw' = rp.PendingDraw /\ currentDraw' = rp.CurrentDraw
    /\ lastDiscardSeat' = rp.LastDiscardSeat

(* decodeTileFieldsIntoRound *)
DecodeTileFieldsIntoRound(rp) ==
    /\ pendingDraw' = rp.PendingDraw /\ currentDraw' = rp.CurrentDraw
    /\ lastDiscardSeat' = IF rp.LastDiscard THEN rp.LastDiscardSeat ELSE NoSeat

(* decodeClaimCandidatesIntoRound: an action it does not know fails the    *)
(* whole recovery; a window saved without candidates gets them anew.       *)
DecodeClaimCandidatesIntoRound(rp) ==
    /\ \A s \in Seats : rp.ClaimCandidates[s] \subseteq ClaimActions
    /\ cands' \in IF rp.Waiting = "Claim" /\ rp.ClaimCandidates = NoCands
                  THEN DiscardCandidates(rp.LastDiscardSeat, rp.Hands.now,
                                         Active(rp.WinEvents, rp.SurrenderedSeats))
                  ELSE {rp.ClaimCandidates}

(* finalizeRoundInvariants: what an old or partial save may leave open.    *)
FinalizeRoundInvariants(rp) ==
    /\ pendingGang' = IF rp.PendingGangSeat = NoSeat /\ rp.QiangGangWindow
                      THEN lastDiscardSeat' ELSE rp.PendingGangSeat
    /\ phase' = IF rp.PhaseReason = "None" THEN rp.Waiting ELSE rp.PhaseReason

(* RestoreRoundFromPersistJSON *)
RestoreRoundFromPersistJSON(rp) ==
    /\ BuildRoundStateFromPersist(rp)
    /\ DecodeTileFieldsIntoRound(rp)
    /\ DecodeClaimCandidatesIntoRound(rp)
    /\ FinalizeRoundInvariants(rp)

(* InjectRecoveryRuntime: the deadline is counted from the saved start of  *)
(* the phase, with the duration that fits whom it waits for now; it may    *)
(* have passed while the node was down, or have moved either way.          *)
InjectRecoveryRuntime ==
    deadline' \in IF phase' = "None" THEN {"none"} ELSE {"running", "expired"}

(* The node crashes and recovers the round.  A closed round is not saved.  *)
Restart ==
    /\ ~closed
    /\ RestoreRoundFromPersistJSON(MarshalRoundPersistJSON)
    /\ InjectRecoveryRuntime

PersistNext == Next \/ Restart

PersistSpec == Init /\ [][PersistNext]_vars

(* The clock advances and the actor's scheduler fires the deadlines that   *)
(* have passed; players owe nothing.  Restarts do not get in the way for   *)
(* ever: the deadline is always counted from the same start of the phase,  *)
(* so once its longest duration is over every restart finds it expired.    *)
FairSpec ==
    /\ PersistSpec
    /\ WF_vars(Tick) /\ SF_vars(\E s \in Seats : Timeout(s))

-----------------------------------------------------------------------------
(* The round as the protocol shows it.                                     *)

(* openingSubmitted of the current step *)
OpeningSubmitted == IF OpeningStep = "exchange" THEN exchangeSubmitted ELSE missingSubmitted

ClaimSeatFirst == {s \in Seats : cands[s] # {} /\ \A o \in 0..(s - 1) : cands[o] = {}}

(* claimSeat: the one candidate that is asked now, if any.                 *)
ClaimSeat == {s \in Seats : IsBestClaimCandidate(s)}

(* snapshotWaiting: the seat that is asked, and what it may answer.  The   *)
(* opening waits silently once only surrendered seats are missing.  The    *)
(* gang it adds to a discard asks canSelfGang, as ApplyGang does.          *)
SnapshotWaiting ==
    LET owing == Seats \ (OpeningSubmitted \cup surrendered)
        Turn(acts) == IF turn \in surrendered THEN {} ELSE {<<turn, a>> : a \in acts}
    IN  CASE phase = "Opening" ->
               {<<s, OpeningStep>> : s \in {o \in owing : \A p \in owing : o <= p}}
          [] phase = "Claim" -> UNION {{<<s, a>> : a \in cands[s]} : s \in ClaimSeat}
          [] phase = "Tsumo" -> Turn({"hu", "pass"})
          [] phase = "Discard" -> Turn({"discard"})
          [] OTHER -> {}

(* actingSeats: everybody the round waits for.                             *)
ActingSeats ==
    CASE phase = "Opening" -> Seats \ (OpeningSubmitted \cup hued \cup surrendered)
      [] phase = "Claim" -> ClaimSeat
      [] phase \in {"Tsumo", "Discard"} -> {turn} \ (hued \cup surrendered)
      [] OTHER -> {}

(* snapshotWaiting's name for what is waited for.  A window nobody is      *)
(* asked in has none, nor has an opening that waits for surrendered seats  *)
(* only; a turn has one even if its seat surrendered.                      *)
WaitingAction ==
    CASE phase = "Opening" -> IF SnapshotWaiting = {} THEN "" ELSE OpeningStep
      [] phase = "Claim" -> IF SnapshotWaiting = {} THEN "" ELSE "claim_window"
      [] phase = "Tsumo" -> "tsumo_window"
      [] phase = "Discard" -> "discard"
      [] OTHER -> ""

(* phase: the coarse phase of the view                                     *)
Phase == IF closed THEN "Closed" ELSE phase

(* ProjectRoundState: who is asked, who is waited for, and the progress.   *)
ProjectRoundState == [asked |-> SnapshotWaiting, acting |-> ActingSeats,
                      WaitingAction |-> WaitingAction, Phase |-> Phase,
                      Step |-> step, Reason |-> phase]

-----------------------------------------------------------------------------
(* The phase token.  A client sends the step and the reason of the last    *)
(* phase update it saw with every action; the actor refuses an action      *)
(* whose token is not of this moment.  Phase updates reach clients along   *)
(* three ways: with an event, in a snapshot, and in the refusal itself.    *)

(* WaitingReasonToProto and WaitingReasonFromProto                         *)
WaitingReasonToProto(r) ==
    CASE r = "Opening" -> "OPENING"
      [] r = "Claim" -> "CLAIM_WINDOW"
      [] r = "Tsumo" -> "TSUMO"
      [] r = "Discard" -> "DISCARD"
      [] OTHER -> "NONE"

WaitingReasonFromProto(r) ==
    CASE r = "OPENING" -> "Opening"
      [] r = "CLAIM_WINDOW" -> "Claim"
      [] r = "TSUMO" -> "Tsumo"
      [] r = "DISCARD" -> "Discard"
      [] OTHER -> "None"

(* PhaseUpdateFromProgress: the update an event carries.                   *)
PhaseUpdateFromProgress(p) ==
    [step |-> p.Step, reason |-> WaitingReasonToProto(p.Reason)]

(* waitingReasonFromRoundView: a snapshot has no reason, it is guessed     *)
(* from the phase and the waiting action.                                  *)
ReasonByActionOnly(v) ==
    CASE v.WaitingAction \in {"exchange", "missing"} -> "OPENING"
      [] v.WaitingAction = "claim_window" -> "CLAIM_WINDOW"
      [] v.WaitingAction = "tsumo_window" -> "TSUMO"
      [] v.WaitingAction = "discard" -> "DISCARD"
      [] OTHER -> "NONE"

WaitingReasonFromRoundView(v) ==
    IF v.Phase = "Opening" THEN "OPENING"
    ELSE CASE v.WaitingAction = "claim_window" -> "CLAIM_WINDOW"
           [] v.WaitingAction = "tsumo_window" -> "TSUMO"
           [] v.WaitingAction = "discard" -> "DISCARD"
           [] OTHER -> "NONE"

(* SnapshotView keeps what the snapshot's update is made of.               *)
SnapshotView ==
    LET p == ProjectRoundState
    IN  [LastStep |-> p.Step, Phase |-> p.Phase, WaitingAction |-> p.WaitingAction]

PhaseUpdateFromRoundView(v) ==
    [step |-> v.LastStep, reason |-> WaitingReasonFromRoundView(v)]

(* PhaseTokenFromProto *)
PhaseTokenFromProto(u) == [Step |-> u.step, Reason |-> WaitingReasonFromProto(u.reason)]

(* validatePhaseToken *)
ValidatePhaseToken(tok) == tok.Step = step /\ tok.Reason = phase

(* driftWrapper.PhaseUpdate: a refusal tells the progress, or the step and *)
(* the reason alone when there is none to tell.                            *)
DriftPhaseUpdate ==
    LET p == ProjectRoundState
    IN  IF p.Step # 0 \/ p.Phase # "None" \/ p.Reason # "None"
        THEN PhaseUpdateFromProgress(p)
        ELSE [step |-> step, reason |-> WaitingReasonToProto(phase)]

-----------------------------------------------------------------------------
(* What the engine accepts from a seat, action by action.                  *)
Accepts(s, a) ==
    CASE a \in {"exchange", "missing"} -> OpeningStep = a /\ s \notin OpeningSubmitted
      [] a = "hu" -> /\ s \notin hued \cup surrendered
                     /\ \/ s = turn /\ phase = "Tsumo"
                        \/ IsTopClaimSeat(s) /\ "hu" \in cands[s]
      [] a \in {"gang", "pong"} -> IsTopClaimSeat(s) /\ a \in cands[s] /\ s \notin hued
      [] a = "pass" -> IsTopClaimSeat(s) \/ (s = turn /\ phase = "Tsumo")
      [] a = "discard" -> s = turn /\ phase \in {"Tsumo", "Discard"}

(* The view and the engine agree: whatever the view tells a seat still in  *)
(* play it may do, the engine accepts from that seat in that state; and as *)
(* long as the round waits for a seat still in play, some such seat is     *)
(* both asked and named among the acting ones (snapshotWaiting against     *)
(* ApplyDiscard, ApplyHu, ApplyPass and the claims).                       *)
ViewMatchesEngine ==
    LET v == ProjectRoundState
        out == hued \cup surrendered
    IN  /\ \A q \in v.asked : q[1] \notin out => Accepts(q[1], q[2]) /\ q[1] \in v.acting
        /\ v.acting \ out # {} => \E q \in v.asked : q[1] \in v.acting

(* A client that has heard of the current state can act in it: the token   *)
(* it makes of an update that left in this state, with an event, in a      *)
(* snapshot or with a refusal, passes validatePhaseToken, also while the   *)
(* opening is owed by surrendered seats only and the snapshot names no     *)
(* action; a client that reconnects is never locked out of a live round.   *)
TokensFit ==
    ~closed =>
    \A u \in {PhaseUpdateFromProgress(ProjectRoundState),
              PhaseUpdateFromRoundView(SnapshotView), DriftPhaseUpdate} :
        ValidatePhaseToken(PhaseTokenFromProto(u))

(* A restart changes nothing but the deadline: hands, wall, marks, wins,   *)
(* surrenders, open windows and opening submissions come back as they were *)
(* saved, through every default and fallback of the decoding.              *)
RestartKeepsTheRound ==
    [][ Restart => UNCHANGED <<openingVars, meldVars, seatVars, flagVars, drawVars,
                               turn, step, hand, closed, phase, cands,
                               lastDiscardSeat, pendingGang, robbed>> ]_vars
=============================================================================
