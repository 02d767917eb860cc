---------------------------- MODULE MCPostgresStore ----------------------------
(* Small instances of PostgresStore for TLC. *)
EXTENDS PostgresStore, TLC

CONSTANTS n1, n2, e1, c1, c2, c3

\* One edge between two nodes.
MCEndsOf == [e \in Edges |-> {n1, n2}]

Batch(upserts, delEdges, delNodes, touch) ==
  [upserts |-> upserts, delEdges |-> delEdges, delNodes |-> delNodes, touch |-> touch]

\* A write of the edge with its nodes, in either order; a merge of the second node into
\* the first; a node and an edge to be forgotten; an access recorded;
\* a batch with nothing in it.
LinkThem == Batch(<<n1, n2, e1>>, {}, {}, {})
LinkBack == Batch(<<n2, n1, e1>>, {}, {}, {})
Merge    == Batch(<<n1>>, {e1}, {n2}, {})
Forget   == Batch(<<>>, {}, {n1}, {})
Unlink   == Batch(<<>>, {e1}, {}, {})
Access   == Batch(<<>>, {}, {}, {n1, n2})
Nothing  == Batch(<<>>, {}, {}, {})

\* Nearly every pair of them, with a third.
Mixed ==
  {w \in [Calls -> {LinkThem, LinkBack, Merge, Forget, Unlink, Access, Nothing}] :
     <<w[c1], w[c2], w[c3]>> \in
       {<<LinkThem, LinkBack, Forget>>, <<LinkThem, Merge, Access>>, <<Merge, Forget, Unlink>>,
        <<LinkThem, Forget, Access>>, <<LinkBack, Merge, Forget>>, <<LinkThem, LinkBack, Access>>,
        <<Merge, Merge, LinkThem>>, <<LinkThem, Nothing, Forget>>}}

\* A write and a request to forget.
WriteAndForget == {[c \in Calls |-> IF c = c1 THEN LinkThem ELSE Forget]}

=============================================================================
