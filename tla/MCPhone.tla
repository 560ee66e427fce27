------------------------------ MODULE MCPhone ------------------------------
(* Small instances of the phone for TLC. *)
EXTENDS Phone, TLC

CONSTANTS m1, m2, w1, w2, q1, alice, bob

MCPersonOf == (m1 :> alice) @@ (m2 :> bob)
MCSymmetry == Permutations(Workers)

(* Two windows of the code are left out here, and only here.  A cancel is   *)
(* over before anybody else moves.                                          *)
AtOnce ==
    IF calloff.at = "judged" THEN TakeOut
    ELSE IF calloff.at = "out" THEN Fire
    (* A pass that cleared its marks is put away, and a player's request    *)
    (* follows what it is made for, at once.                                *)
    ELSE IF \E w \in Workers : worker[w].at = "after" THEN \E w \in Workers : After(w)
    ELSE IF ~alive THEN \E w \in Workers : Calls(w)
    ELSE IF \E q \in Players : player[q] \in {"asks", "told"}
    THEN \E q \in Players : RequestIfDue(q) \/ WorldAsks(q)
    ELSE PhoneNext

(* Both threads are at work only when one message at most is not settled.   *)
Few ==
    \/ Cardinality({w \in Workers : worker'[w].at # "idle"}) <= 1
    \/ Cardinality({m \in Messages : message'[m] \in {"later", "due"}}) <= 1

PromptPhone == PhoneInit /\ [][AtOnce /\ Few]_phoneVars
=============================================================================
