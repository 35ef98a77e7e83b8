-------------------------- MODULE MCLayerExecution --------------------------
(* Three tools: one that needs a slot earlier layers may have left, one that *)
(* needs by name what the first produces, one that finds its input by type.  *)
EXTENDS LayerExecution, TLC

CONSTANTS t1, t2, t3,      \* tools
          sa, sb, sc,      \* slots, in sorted order
          A, B,            \* types
          outer

MCSelected == <<t1, t2, t3>>
MCSlotOrder == <<sa, sb, sc>>

MCParams == (t1 :> <<[slot |-> sb, type |-> B]>>)
         @@ (t2 :> <<[slot |-> sa, type |-> A]>>)
         @@ (t3 :> <<[slot |-> sc, type |-> A], [slot |-> sb, type |-> B]>>)

MCProduces == (t1 :> {sa}) @@ (t2 :> {sa, sb}) @@ (t3 :> {sc})

MCResultType == (t1 :> A) @@ (t2 :> B) @@ (t3 :> A)

Left(type) == [type |-> type, source |-> outer]

MCContents == {<< >>, <<Left(A)>>, <<Left(B)>>, <<Left(B), Left(A)>>}

\* The default context; two slots with a timeout; room for everyone, no timeout.
OneSlot == [max_concurrency |-> 1, timeout |-> FALSE]
MCContexts == {OneSlot, [max_concurrency |-> 2, timeout |-> TRUE],
               [max_concurrency |-> 3, timeout |-> FALSE]}

MCIncoming == {(sa :> x) @@ (sb :> y) @@ (sc :> << >>) : x, y \in MCContents}
=============================================================================
