------------------------ MODULE SubscriptionLifecycle ------------------------
(***************************************************************************)
(* What selling a subscription link promises, without threads, statements, *)
(* webhooks or crashes: a link is first recorded, then becomes entitled to *)
(* the service (somebody paid for it or an administrator vouched for it),  *)
(* then is active for good.  stage is what survives a restart.             *)
(***************************************************************************)
CONSTANT Tokens

VARIABLES stage, entitled

Stages == {"absent", "pending", "active"}

Init == /\ stage = [tok \in Tokens |-> "absent"]
        /\ entitled \in {{}, Tokens}    \* a mock shop vouches for every link

(* Nobody can be entitled through a link that is not recorded.             *)
Entitle(tok) == /\ stage[tok] # "absent"
                /\ entitled' = entitled \cup {tok}
                /\ UNCHANGED stage

(* One stage at a time, never back, and never active without a cause.      *)
Follows(before, after, cause) ==
  \/ after = before
  \/ before = "absent" /\ after = "pending"
  \/ before = "pending" /\ after = "active" /\ cause

(* Several links may advance at once: requests share commits.              *)
Record == /\ stage' \in [Tokens -> Stages]
          /\ \A tok \in Tokens : Follows(stage[tok], stage'[tok], tok \in entitled)
          /\ UNCHANGED entitled

Next == Record \/ \E tok \in Tokens : Entitle(tok)

Spec == Init /\ [][Next]_<<stage, entitled>>
=============================================================================
