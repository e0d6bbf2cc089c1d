----------------------------- MODULE MCFormulas -----------------------------
\* Formulas, and the credits they cost. The components share no state, so a
\* behaviour is one of a single component, its focus, and the others stay at
\* rest: the state spaces add up instead of multiplying.
EXTENDS Credits, Proposals, VotingPower, DaoTree

CONSTANTS q1, q2, q3, c1, c2

VARIABLE focus

-----------------------------------------------------------------------------
\* Credits: three requests at once, or two with payments, or a payment in parts.
RangeLengths == {-5, 1, 3}
FirstAmounts ==
    {[c \in CreditRows |-> IF c = c1 THEN 1 ELSE 3],
     [c \in CreditRows |-> IF c = c1 THEN Infinite ELSE 2]}
CreditSizes ==
    LET Size(q, p, d) == [queries |-> q, paid |-> p, deliveries |-> d]
    IN  {Size({q1, q2, q3}, 0, 0), Size({q1, q2}, 2, 1), Size({q1}, 3, 2)}

\* Proposals of three votes: every threshold, then vetoes, revoting, a minimum
\* voting period and delegated votes. The last needs 90% of ten votes.
AMajority == [majority |-> TRUE, percent |-> 0, low |-> FALSE]
APercent(n) == [majority |-> FALSE, percent |-> n, low |-> n = 90]
Absolute(p) == [type |-> "absolute_percentage", percentage |-> p]
WithQuorum(p, q) == [type |-> "threshold_quorum", percentage |-> p, quorum |-> q]
Counted(n) == [type |-> "absolute_count", count |-> n]
QuorumOf(q) == [type |-> "quorum", quorum |-> q]
EndsAt(u, n) == [unit |-> u, at |-> n]
Lasting(u, n) == [unit |-> u, len |-> n]
NewProposal(kind, threshold, total, end, min, revoting, veto, individual) ==
    [kind |-> kind, threshold |-> threshold, total |-> total, expiration |-> end, min |-> min,
     revoting |-> revoting, veto |-> veto, hasIndividual |-> individual,
     individual |-> <<0, 0, 0>>, delegated |-> <<0, 0, 0>>, status |-> St("open")]
SomeProposals ==
    {NewProposal("single", t, 3, EndsAt("height", 3), {}, FALSE, {}, TRUE) :
        t \in {Absolute(AMajority), Absolute(APercent(50)), Absolute(APercent(75)), Absolute(APercent(100)),
               WithQuorum(AMajority, APercent(50)), WithQuorum(APercent(75), AMajority),
               WithQuorum(APercent(100), APercent(25)), Counted(2), Counted(3)}}
    \cup {NewProposal("multiple", QuorumOf(q), 3, EndsAt("height", 3), {}, FALSE, {}, TRUE) :
        q \in {AMajority, APercent(25), APercent(100)}}
    \cup {NewProposal("single", WithQuorum(AMajority, APercent(50)), 3, EndsAt("time", 3), m, r, v, i) :
        m \in {{}, {EndsAt("time", 2)}}, r \in BOOLEAN,
        v \in {{}, {Lasting("time", 1)}, {Lasting("height", 1)}}, i \in BOOLEAN}
    \cup {NewProposal("multiple", QuorumOf(AMajority), 3, EndsAt("height", 3), m, r, v, TRUE) :
        m \in {{}, {EndsAt("height", 2)}}, r \in BOOLEAN, v \in {{}, {Lasting("height", 1)}}}
    \cup {NewProposal("single", Absolute(APercent(90)), 10, EndsAt("height", 2), {}, FALSE, {}, FALSE)}

-----------------------------------------------------------------------------
\* A component at rest starts from one state.
AtRest ==
    /\ IF focus = "credits" THEN TRUE
       ELSE /\ allowed = CHOOSE b \in CreditSizes : TRUE
            /\ credit = [c \in CreditRows |-> [amount |-> (CHOOSE a \in FirstAmounts : TRUE)[c],
                                               used |-> 0, hits |-> 0]]
    /\ IF focus = "proposals" THEN TRUE ELSE prop = CHOOSE p \in NewProposals : TRUE
    /\ IF focus = "power" THEN TRUE ELSE stakes = FALSE
    /\ IF focus = "tree" THEN TRUE ELSE tree = [d \in Daos |-> {}]

FormulasInit ==
    /\ focus \in {"credits", "proposals", "power", "tree"}
    /\ AtRest
    /\ CreditsInit
    /\ ProposalsInit
    /\ VotingPowerInit
    /\ DaoTreeInit

FormulasNext ==
    \/ /\ focus = "credits" /\ CreditsNext
       /\ UNCHANGED <<focus, proposalVars, powerVars, daoTreeVars>>
    \/ /\ focus = "proposals" /\ ProposalsNext
       /\ UNCHANGED <<focus, creditsVars, powerVars, daoTreeVars>>
    \/ /\ focus = "power" /\ VotingPowerNext
       /\ UNCHANGED <<focus, creditsVars, proposalVars, daoTreeVars>>
    \/ /\ focus = "tree" /\ DaoTreeNext
       /\ UNCHANGED <<focus, creditsVars, proposalVars, powerVars>>

FormulasSpec == FormulasInit /\ [][FormulasNext]_<<focus, creditsVars, proposalVars, powerVars, daoTreeVars>>
=============================================================================
