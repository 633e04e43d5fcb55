------------------------ MODULE NflEvidenceContract ------------------------
(***************************************************************************)
(* What the prospective record of a season promises its reader: a game is  *)
(* officially predicted at most once, before the kickoff it is predicted   *)
(* for; a prediction is priced at most once, later than it was made and    *)
(* before that kickoff; and nothing that is on record is withdrawn or      *)
(* rewritten.                                                              *)
(***************************************************************************)
EXTENDS Integers

VARIABLES
    now,
    predicted,  \* official predictions: [game, kickoff, created]
    priced      \* their evaluations: [prediction, at]

contractVars == <<now, predicted, priced>>

ContractInit == predicted = {} /\ priced = {}

Predict(new) ==
    /\ \A n \in new : n.created = now /\ now < n.kickoff
    /\ \A n \in new, m \in predicted \cup new : n.game = m.game => n = m

Price(new) ==
    /\ \A v \in new : /\ v.prediction \in predicted
                      /\ v.prediction.created < v.at /\ v.at = now
                      /\ v.at < v.prediction.kickoff
    /\ \A v \in new, w \in priced \cup new : v.prediction = w.prediction => v = w

ContractNext ==
    /\ now' >= now
    /\ predicted \subseteq predicted' /\ Predict(predicted' \ predicted)
    /\ priced \subseteq priced' /\ Price(priced' \ priced)

ContractSpec == ContractInit /\ [][ContractNext]_contractVars
=============================================================================
