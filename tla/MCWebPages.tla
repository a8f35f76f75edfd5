------------------------------ MODULE MCWebPages ------------------------------
EXTENDS WebPages

\* Two types, two actors, and pages of one event.
MCLog ==
    <<[type |-> "server", actor |-> "ann"], [type |-> "publisher", actor |-> "ann"],
      [type |-> "server", actor |-> "bob"]>>

MCFinds == ("" :> {"a", "b"}) @@ ("x" :> {"a"})

MCSubmissions ==
    {[kind |-> "version", of |-> "1.0.0"], [kind |-> "change", of |-> "visibility"],
     [kind |-> "change", of |-> "metadata"], [kind |-> "deletion", of |-> "entry"]}

MCGrantable ==
    {[role |-> "viewer", on |-> "p"], [role |-> "admin", on |-> "q"],
     [role |-> "reviewer", on |-> Everywhere]}

MCSeeds == {[to |-> "team", on |-> "p"]}

\* A public entry with two ways to connect and a private one in preparation.
MCSources == ("fetch" :> 2) @@ ("draft" :> 1)
MCVersionsOf == ("fetch" :> {"f1", "f2"}) @@ ("draft" :> {})
MCDrafts == ("fetch" :> {"f3"}) @@ ("draft" :> {"d1", "d2"})

=============================================================================
