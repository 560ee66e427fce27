------------------------------ MODULE MCHosted ------------------------------
(* The lane queue of a supervisor and the session store of a worker, side   *)
(* by side for TLC: a behaviour is one of the part chosen at its start; the *)
(* other stays as it begins.                                                *)
EXTENDS MCLaneQueue, MCSessions

VARIABLE part

(* Swapping the two workers, with their stories, changes nothing in the     *)
(* queue; swapping the two runs, or the two requests, nothing in the store. *)
MCSymmetry ==
    {p \in Permutations({s1, s2, c1, c2, r1, r2}) :
        \/ p[s1] = s1 /\ p[s2] = s2 /\ p[c1] = c1 /\ p[c2] = c2 /\ p[r1] = r1
        \/ p[s1] = s2 /\ p[s2] = s1 /\ p[c1] = c2 /\ p[c2] = c1 /\ p[r1] = r2}
    \cup Permutations(Requests)

HostedInit ==
    /\ part \in {"queue", "store"}
    /\ QueueInit /\ Init
    (* What may vary at the start does so in the part chosen. *)
    /\ part # "store" => phone /\ ~open /\ \A r \in Runs : disk[r] = NoSave

HostedNext ==
    /\ part' = part
    /\ \/ part = "queue" /\ QueuePrompt /\ UNCHANGED vars
       \/ part = "store" /\ StorePrompt /\ UNCHANGED queueVars

HostedSpec == HostedInit /\ [][HostedNext]_<<part, queueVars, vars>>
=============================================================================
