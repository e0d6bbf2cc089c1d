----------------------------- MODULE Proposals -----------------------------
(***************************************************************************)
(* The status and the dates the proposal formulas report                   *)
(* (contract/proposal): single choice and multiple choice proposals with   *)
(* their thresholds, quorums, minimum voting periods, revoting, vetoes and *)
(* delegated votes.  The proposal module contract votes, executes, closes  *)
(* and vetoes; the formulas read what it stored and work out at the        *)
(* current height and time what it would answer.                           *)
(***************************************************************************)
EXTENDS Integers, Sequences, SequencesExt, FiniteSetsExt

CONSTANTS
    NewProposals,   \* proposals as created; a behaviour follows one of them
    PRECISION_FACTOR,
    MaxNow          \* bound on heights and times

VARIABLES
    prop,   \* the proposal as the contract stored it last
    now,    \* height of the latest block and the current time
    log     \* the statuses written, with their heights

proposalVars == <<prop, now, log>>

\* Statuses; a veto timelock has the expiration it lasts to.
Never == [unit |-> "never", at |-> 0]
St(s) == [s |-> s, until |-> Never]

\* A portion of the votes: more than half of them, or hundredths; low is explained
\* below.
Portions(least) ==
    {x \in [majority : BOOLEAN, percent : 0 .. 100, low : BOOLEAN] : x.majority \/ x.percent >= least}

\* A percentage of votes to pass with is not 0, a quorum may be.
Thresholds(kind) ==
    IF kind = "multiple" THEN [type : {"quorum"}, quorum : Portions(0)]
    ELSE [type : {"absolute_percentage"}, percentage : Portions(1)]
         \cup [type : {"threshold_quorum"}, percentage : Portions(1), quorum : Portions(0)]
         \cup [type : {"absolute_count"}, count : Nat]

Expirations == [unit : {"never", "height", "time"}, at : Nat]
Durations == [unit : {"height", "time"}, len : Nat]

\* A proposal as the contract creates it: no vote is cast, and the minimum voting
\* period ends before the proposal expires.
IsNew(p) ==
    /\ p \in [kind : {"single", "multiple"}, threshold : Thresholds("single") \cup Thresholds("multiple"),
              total : Nat, expiration : Expirations, min : SUBSET Expirations, revoting : BOOLEAN,
              veto : SUBSET Durations, hasIndividual : BOOLEAN, individual : Seq({0}),
              delegated : Seq({0}), status : {St("open")}]
    /\ p.threshold \in Thresholds(p.kind)
    /\ Len(p.individual) = Len(p.delegated)
    /\ IF p.kind = "single" THEN Len(p.individual) = 3 ELSE Len(p.individual) >= 2
    /\ \A e \in p.min : e.unit = p.expiration.unit /\ e.at <= p.expiration.at

ASSUME ProposalsAssumption ==
    /\ PRECISION_FACTOR \in Nat /\ PRECISION_FACTOR >= 100 /\ MaxNow \in Nat
    /\ \A p \in NewProposals : IsNew(p)

-----------------------------------------------------------------------------
(* Expirations, and counting votes.                                        *)

isExpirationExpired(e, t) == e.unit # "never" /\ t[e.unit] >= e.at

\* Both in heights, or both in times; anything else throws.
UnitsMatch(e, duration) == e.unit = duration.unit
expirationPlusDuration(e, duration) == [e EXCEPT !.at = @ + duration.len]

\* Percentages are in hundredths. The product is truncated to the precision.
compareVoteCount(votes, orEqual, total, percent) ==
    LET threshold == (total * PRECISION_FACTOR * percent) \div 100
    IN  IF orEqual THEN votes * PRECISION_FACTOR >= threshold
                   ELSE votes * PRECISION_FACTOR > threshold

\* Mutant: half of the votes pass.
doesVoteCountPass_Half(yes, options, p) ==
    /\ options # 0
    /\ IF p.majority THEN yes * 2 >= options ELSE compareVoteCount(yes, TRUE, options, p.percent)

doesVoteCountPass(yes, options, p) ==
    /\ options # 0
    /\ IF p.majority THEN yes * 2 > options ELSE compareVoteCount(yes, TRUE, options, p.percent)

\* 1 - Number(percent) is a double: where it comes out below the exact difference
\* (p.low; 0.9 and 0.67 are such), the truncated threshold is one unit lower
\* wherever the exact one is whole.
failThreshold(options, p) ==
    (options * PRECISION_FACTOR * (100 - p.percent) - (IF p.low THEN 1 ELSE 0)) \div 100

doesVoteCountFail(no, options, p) ==
    \/ options = 0
    \/ IF p.majority THEN no * 2 >= options
                     ELSE no * PRECISION_FACTOR > failThreshold(options, p)

-----------------------------------------------------------------------------
(* Single choice: the weights are those of yes, no and abstain.            *)

totalVotes(weights) == SumFunction(weights)

Plus(a, b) == [i \in DOMAIN a |-> a[i] + b[i]]

\* Before the expiration the individual votes count, unless the contract is too
\* old to have them; after it, delegated ones count too.
votesToConsider(p, t) ==
    IF ~isExpirationExpired(p.expiration, t) /\ p.hasIndividual
    THEN p.individual ELSE Plus(p.individual, p.delegated)

\* Whether the votes may still change the outcome by changing themselves.
Revotable(p, t) == p.revoting /\ ~isExpirationExpired(p.expiration, t)

TooEarly(p, t) == \E e \in p.min : ~isExpirationExpired(e, t)

isPassedSingle(p, t) ==
    LET v == votesToConsider(p, t)
        cast == totalVotes(v)
        expired == isExpirationExpired(p.expiration, t)
    IN  /\ ~Revotable(p, t) /\ ~TooEarly(p, t)
        /\ CASE p.threshold.type = "absolute_percentage" ->
                    doesVoteCountPass(v[1], p.total - v[3], p.threshold.percentage)
             [] p.threshold.type = "threshold_quorum" ->
                    /\ doesVoteCountPass(cast, p.total, p.threshold.quorum)
                    /\ doesVoteCountPass(v[1], (IF expired THEN cast ELSE p.total) - v[3],
                                         p.threshold.percentage)
             [] p.threshold.type = "absolute_count" -> v[1] >= p.threshold.count

\* With a threshold of 100% any no is enough.
Fails(v, options, p) ==
    IF ~p.majority /\ p.percent = 100 THEN options = 0 \/ v[2] >= 1
    ELSE doesVoteCountFail(v[2], options, p)

isRejectedSingle(p, t) ==
    LET v == votesToConsider(p, t)
        cast == totalVotes(v)
        expired == isExpirationExpired(p.expiration, t)
    IN  /\ ~Revotable(p, t)
        /\ CASE p.threshold.type = "absolute_percentage" ->
                    Fails(v, p.total - v[3], p.threshold.percentage)
             [] p.threshold.type = "threshold_quorum" ->
                    IF ~expired THEN Fails(v, p.total - v[3], p.threshold.percentage)
                    ELSE doesVoteCountPass(cast, p.total, p.threshold.quorum)
                             => Fails(v, cast - v[3], p.threshold.percentage)
             [] p.threshold.type = "absolute_count" ->
                    v[1] + p.total - cast < p.threshold.count

-----------------------------------------------------------------------------
(* Multiple choice: the last choice is none of the above.                  *)

\* calculateVoteResult: the choices with the most votes; a tie has several.
topChoices(v) == {i \in DOMAIN v : \A j \in DOMAIN v : v[j] <= v[i]}

isNone(v, i) == i = Len(v)

\* No way of casting the remaining votes can beat the choice, or, for none of
\* the above, can do better than a tie.
isChoiceUnbeatable(p, v, i) ==
    LET second == Max({v[j] : j \in DOMAIN v \ {i}})
        remaining == p.total - totalVotes(v)
    IN  IF isNone(v, i) THEN v[i] >= second + remaining ELSE v[i] > second + remaining

isPassedMultiple(p, t) ==
    LET v == votesToConsider(p, t)
    IN  /\ ~Revotable(p, t) /\ ~TooEarly(p, t)
        /\ doesVoteCountPass(totalVotes(v), p.total, p.threshold.quorum)
        /\ \E i \in DOMAIN v :
               /\ topChoices(v) = {i} /\ ~isNone(v, i)
               /\ isExpirationExpired(p.expiration, t) \/ isChoiceUnbeatable(p, v, i)

isRejectedMultiple(p, t) ==
    LET v == votesToConsider(p, t)
        top == topChoices(v)
        expired == isExpirationExpired(p.expiration, t)
    IN  /\ ~Revotable(p, t)
        /\ IF Cardinality(top) > 1 THEN expired \/ p.total = totalVotes(v)
           ELSE \E i \in top :
                    IF expired
                    THEN doesVoteCountPass(totalVotes(v), p.total, p.threshold.quorum) => isNone(v, i)
                    ELSE isNone(v, i) /\ isChoiceUnbeatable(p, v, i)

-----------------------------------------------------------------------------
isPassed(p, t) == IF p.kind = "single" THEN isPassedSingle(p, t) ELSE isPassedMultiple(p, t)
isRejected(p, t) == IF p.kind = "single" THEN isRejectedSingle(p, t) ELSE isRejectedMultiple(p, t)

\* Mutant: the timelock starts when the proposal passes.
statusOf_TimelockNow(p, t) ==
    IF p.status.s = "open" /\ isPassed(p, t) /\ p.veto # {}
    THEN LET v == CHOOSE x \in p.veto : TRUE
         IN  IF isExpirationExpired(p.expiration, t) THEN St("passed")
             ELSE [s |-> "veto_timelock", until |-> [unit |-> v.unit, at |-> t[v.unit] + v.len]]
    ELSE IF p.status.s = "open" /\ isPassed(p, t) THEN St("passed")
    ELSE IF p.status.s = "open" /\ (isExpirationExpired(p.expiration, t) \/ isRejected(p, t)) THEN St("rejected")
    ELSE IF p.status.s = "veto_timelock" /\ isExpirationExpired(p.status.until, t) THEN St("passed")
    ELSE p.status

\* intoResponse: the status reported for a stored proposal. The minimum voting
\* period may end after the expiration only by a contract's mistake, so a passed
\* proposal is looked for first.
statusOf(p, t) ==
    IF p.status.s = "open"
    THEN IF isPassed(p, t)
         THEN IF p.veto = {} THEN St("passed")
              ELSE LET v == CHOOSE x \in p.veto : TRUE
                       e == expirationPlusDuration(p.expiration, v)
                   IN  IF ~UnitsMatch(p.expiration, v) THEN St("error")
                       ELSE IF isExpirationExpired(e, t) THEN St("passed")
                       ELSE [s |-> "veto_timelock", until |-> e]
         ELSE IF isExpirationExpired(p.expiration, t) \/ isRejected(p, t) THEN St("rejected")
         ELSE p.status
    ELSE IF p.status.s = "veto_timelock" /\ isExpirationExpired(p.status.until, t) THEN St("passed")
    ELSE p.status

\* The first height at which one of the statuses was written; {} when none was.
firstWritten(statuses) ==
    LET at == {i \in DOMAIN log : log[i].s \in statuses}
    IN  IF at = {} THEN {} ELSE {log[Min(at)].height}

executedAt == IF statusOf(prop, now).s \in {"executed", "execution_failed"}
              THEN firstWritten({"executed", "execution_failed"}) ELSE {}
closedAt == IF statusOf(prop, now).s = "closed" THEN firstWritten({"closed"}) ELSE {}

\* Mutant: only what is executed counts as completed.
completedAt_Executed == IF statusOf(prop, now).s = "open" THEN {} ELSE executedAt

completedAt ==
    IF statusOf(prop, now).s = "open" THEN {}
    ELSE IF executedAt # {} THEN executedAt
    ELSE IF closedAt # {} THEN closedAt
    ELSE firstWritten({"passed", "rejected"})

-----------------------------------------------------------------------------
(* The contract, and time.                                                 *)

ProposalsInit ==
    /\ prop \in NewProposals
    /\ now = [height |-> 1, time |-> 1]
    /\ log = <<[s |-> "open", height |-> 1]>>

\* The contract counts with exact decimals.
Exact(p) ==
    IF "percentage" \in DOMAIN p.threshold /\ p.threshold.percentage.low
    THEN [p EXCEPT !.threshold.percentage.low = FALSE] ELSE p

\* What a transaction stores, with or without the status it worked out.
Store(p) ==
    \E s \in {p.status, statusOf(Exact(p), now)} :
        /\ s.s # "error"
        /\ prop' = [p EXCEPT !.status = s]
        /\ log' = IF s = p.status THEN log ELSE Append(log, [s |-> s.s, height |-> now.height])
        /\ UNCHANGED now

Uncast(p) == p.total - totalVotes(p.individual) - totalVotes(p.delegated)

\* Votes are taken until the expiration, whatever the outcome already is.
CastVote(i) ==
    /\ ~isExpirationExpired(prop.expiration, now)
    /\ Uncast(prop) > 0
    /\ Store([prop EXCEPT !.individual[i] = @ + 1])

\* A delegate's vote carries the power of members who have not voted.
DelegateVotes(i) ==
    /\ ~isExpirationExpired(prop.expiration, now) /\ prop.hasIndividual
    /\ Uncast(prop) > 0
    /\ Store([prop EXCEPT !.delegated[i] = @ + 1])

\* A member overrides the vote of a delegate.
OverrideDelegate(i, j) ==
    /\ ~isExpirationExpired(prop.expiration, now)
    /\ prop.delegated[i] > 0
    /\ Store([prop EXCEPT !.delegated[i] = @ - 1, !.individual[j] = @ + 1])

Revote(i, j) ==
    /\ prop.revoting /\ ~isExpirationExpired(prop.expiration, now)
    /\ prop.individual[i] > 0 /\ i # j
    /\ Store([prop EXCEPT !.individual[i] = @ - 1, !.individual[j] = @ + 1])

\* Executing a passed proposal, closing a rejected one, vetoing.
Finish ==
    LET s == statusOf(Exact(prop), now).s
    IN  \E end \in CASE s = "passed" -> {"executed", "execution_failed"}
                     [] s = "rejected" -> {"closed"}
                     [] s = "veto_timelock" -> {"vetoed", "executed"}
                     [] OTHER -> {} :
            /\ prop' = [prop EXCEPT !.status = St(end)]
            /\ log' = Append(log, [s |-> end, height |-> now.height])
            /\ UNCHANGED now

\* A block, or time without one: the date of the environment is the present.
Tick ==
    /\ \E h \in {0, 1} :
           /\ now.height + h <= MaxNow /\ now.time < MaxNow
           /\ now' = [height |-> now.height + h, time |-> now.time + 1]
    /\ UNCHANGED <<prop, log>>

ProposalsNext ==
    \/ \E i \in DOMAIN prop.individual :
           \/ CastVote(i) \/ DelegateVotes(i)
           \/ \E j \in DOMAIN prop.individual : OverrideDelegate(i, j) \/ Revote(i, j)
    \/ Finish
    \/ Tick

ProposalsSpec == ProposalsInit /\ [][ProposalsNext]_proposalVars

-----------------------------------------------------------------------------
(* Properties.                                                             *)

\* What may follow a reported status.
MayFollow(s, next) ==
    CASE s = "open" -> TRUE
      [] s = "veto_timelock" -> next \in {"veto_timelock", "passed", "vetoed", "executed", "execution_failed"}
      [] s = "passed" -> next \in {"passed", "executed", "execution_failed"}
      [] s = "rejected" -> next \in {"rejected", "closed"}
      [] OTHER -> next = s

Rounded(p) == "percentage" \in DOMAIN p.threshold /\ p.threshold.percentage.low

\* A reported outcome is final: no votes cast later, no delegate's or overridden
\* vote, no passing of time and nothing the contract stores takes a proposal
\* from passed or rejected to another outcome or back to open; except that a
\* rejection is too early where the complement of the threshold is rounded down
\* (isPassed, isRejected, intoResponse).
OutcomeIsFinal ==
    [][\/ MayFollow(statusOf(prop, now).s, statusOf(prop, now)'.s)
       \/ Rounded(prop) /\ statusOf(prop, now).s = "rejected"]_proposalVars

\* The same without the exception, which the code does not meet (README).
RejectedIsFinal ==
    [][MayFollow(statusOf(prop, now).s, statusOf(prop, now)'.s)]_proposalVars

\* A veto timelock that is reported keeps its end, whenever it is read
\* and when the contract stores it.
TimelockIsKept ==
    [][statusOf(prop, now).s = "veto_timelock" /\ statusOf(prop, now)'.s = "veto_timelock"
           => statusOf(prop, now)'.until = statusOf(prop, now).until]_proposalVars

\* Every proposal whose final status the contract has written has a completion
\* date, which lies between its creation and now; only an outcome no transaction
\* has stored has none, and vetoes (intoResponse).
CompletedIsDated ==
    /\ statusOf(prop, now).s \in {"executed", "execution_failed", "closed"} => completedAt # {}
    /\ prop.status.s \in {"passed", "rejected"} => completedAt # {}
    /\ \A h \in completedAt : 1 <= h /\ h <= now.height
    /\ \A h \in completedAt : \A e \in executedAt \cup closedAt : h = e

\* What is reported of a proposal stays true: its outcome, the end of its timelock
\* and the date it was completed at.
StatusIsKept ==
    /\ OutcomeIsFinal
    /\ TimelockIsKept
    /\ []CompletedIsDated
=============================================================================
