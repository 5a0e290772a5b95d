----------------------------- MODULE MCReconciler -----------------------------
(* Small instances of Reconciler for TLC.                                  *)
EXTENDS Reconciler, TLC

\* Claim keys.  "a-b"/"c" and "a"/"b-c" are different claims whose OBs have the
\* same name; "a"/"c" has one of its own.
OneKey        == {[ns |-> <<"a">>, name |-> <<"c">>]}
TwoKeys       == OneKey \cup {[ns |-> <<"b">>, name |-> <<"c">>]}
CollidingKeys == {[ns |-> <<"a", "b">>, name |-> <<"c">>],
                  [ns |-> <<"a">>, name |-> <<"b", "c">>]}

\* The processes the workers run in: one for all, or one for each.
OneProcess == [w \in Workers |-> "p1"]
Processes  == [w \in Workers |-> w]
AnyWorker  == Permutations(Workers)

\* Storage classes: new buckets that are deleted or kept with their claim, a
\* pre-existing bucket, and a class of somebody else's provisioner.
Green(p)  == [ours |-> TRUE, bucket |-> None, policy |-> p]
Brown     == [ours |-> TRUE, bucket |-> "old", policy |-> "Delete"]
Foreign   == [ours |-> FALSE, bucket |-> None, policy |-> "Delete"]
AllClasses   == {"green", "kept", "brown", "foreign"}
AllDefs      == [green |-> {Green("Delete")}, kept |-> {Green("Delete")},
                 brown |-> {Brown}, foreign |-> {Foreign}]
Generate(c)  == [class |-> c, bucket |-> None, generate |-> TRUE]
Named(c, b)  == [class |-> c, bucket |-> b, generate |-> FALSE]
\* A generated name for each class, a name of the user's own that a brownfield
\* class overrules, and a request with no name at all.
AllRequests  == {Generate(c) : c \in AllClasses}
                \cup {Named("brown", "mine"), Named("green", None)}

NewAndOld    == {Generate("green"), Named("brown", "mine")}
Contended    == {Named("green", "mine"), Named("kept", "mine")}
NewOnly      == {Generate("green")}

OldAndMine == {"old", "mine"}
JustOld    == {"old"}
TwoGen     == {"g1", "g2"}
NewAndOldClasses == {"green", "brown"}
NewAndOldDefs    == [c \in NewAndOldClasses |-> AllDefs[c]]
KeepsClass       == [c \in NewAndOldClasses |-> None]
KeepsKept  == [c \in AllClasses |-> IF c = "kept" THEN "Retain" ELSE None]

\* Budgets.
Budget(c, e, crash, api, prov, cls) ==
    [create |-> c, edit |-> e, crash |-> crash, apiError |-> api,
     provError |-> prov, classOp |-> cls]
OneLife   == Budget(2, 0, 1, 1, 1, 0)
Sharing   == Budget(3, 0, 0, 0, 0, 0)
Rollout   == Budget(1, 1, 1, 0, 0, 0)
NoFaults  == Budget(2, 0, 0, 0, 0, 0)
BadReply  == Budget(1, 0, 0, 1, 0, 0)
LostClass == Budget(1, 0, 0, 0, 0, 1)
Recreated == Budget(2, 0, 0, 0, 0, 0)
Recovery  == Budget(2, 1, 1, 0, 0, 1)
===============================================================================
