--------------------------- MODULE MCTriggerFiring ---------------------------
EXTENDS TriggerFiring, TLC

CONSTANTS t1, h1, h2, h3, h4, h5, e1, e2, e3, p1

\* An event that comes by a webhook, by its redelivery and from the poller; another event of its
\* pull request; and one of none, which does not meet the rule's conditions.
MCEvent    == h1 :> e1 @@ h2 :> e1 @@ h3 :> e1 @@ h4 :> e2 @@ h5 :> e3
MCDelivery == h1 :> "d1" @@ h2 :> "d1" @@ h3 :> e1 @@ h4 :> "d4" @@ h5 :> "d5"
MCPr       == e1 :> p1 @@ e2 :> p1 @@ e3 :> NoPr
MCMet      == {<<t1, e1>>, <<t1, e2>>}

\* h1 and h2 are interchangeable, so h1 may as well be the first.
InOrder == at'[h2] # "waiting" => at'[h1] # "waiting"

\* A key is looked for by the presentations of its event, so that of an event which will not come
\* again may as well stay.  Bound: a handler is done in the days a key is kept.
Awaited ==
  \A e \in marked \ marked' :
    /\ \E h \in Presentations : Event[h] = e /\ at[h] = "waiting"
    /\ \A h \in Presentations : Event[h] = e => at[h] \in Ended
=============================================================================
