------------------------- MODULE OneWorkerInvariant -------------------------
(***************************************************************************)
(* Pipeline with one worker process and feeds that name no indicator       *)
(* twice: the deployment in which sessions are never out of date, and the  *)
(* invariant that makes the table exact in it.                             *)
(***************************************************************************)
EXTENDS PipelineInvariant

OneWorker == \A v, w \in Workers : v = w

\* Every indicator once; what has no type may be there any number of times.
NamesOnce(items) ==
    \A j, k \in DOMAIN items :
        items[j].ioc = items[k].ioc /\ items[j].ioc # Unknown => j = k

\* No indicator twice in a feed, and no confidence above the cap: the parser
\* checks neither, and a higher one would go down at its next sighting.
PlainFeeds ==
    /\ \A items \in FeedBodies : NamesOnce(items)
    /\ \A c \in Given : c <= 100

\* What remains of a feed names nothing twice, nor what is in the session.
RestNamesOnce ==
    \A w \in Workers :
        /\ NamesOnce(todo[w])
        /\ \A k \in DOMAIN todo[w] : todo[w][k].confidence \in Given
        /\ phase[w] = "upsert" =>
              \A id \in RowIds, k \in DOMAIN todo[w] :
                  session[w][id] # NotLoaded
                    => session[w][id].object.ioc # todo[w][k].ioc

\* A loaded object is its row, sighted once or not yet.
LoadedCurrent(w, id) ==
    /\ session[w][id].base = rows[id]
    /\ phase[w] = "upsert" =>
          /\ session[w][id].object = Sighted(rows[id], SourceName(w), now[w])
          /\ session[w][id].hits = 1

\* A new one is the first of its indicator, and as a feed gave it.
NewCurrent(w, id) ==
    LET object == session[w][id].object
    IN  /\ Matches(object.ioc) = {}
        /\ \E c \in Given :
              object = Created([ioc |-> object.ioc, confidence |-> c],
                               SourceName(w), now[w])

SessionCurrent ==
    \A w \in Workers, id \in RowIds :
        session[w][id] # NotLoaded
          => IF session[w][id].base # NoRow THEN LoadedCurrent(w, id)
             ELSE NewCurrent(w, id)

\* And the only one of its indicator in the session.
SessionNamesOnce ==
    \A w \in Workers, id1, id2 \in RowIds :
        /\ phase[w] = "upsert"
        /\ session[w][id1] # NotLoaded /\ session[w][id2] # NotLoaded
        /\ session[w][id1].object.ioc = session[w][id2].object.ioc
        => id1 = id2

\* The clock that an upsert has read is later than all that is committed.
Clocked ==
    /\ \A id \in Committed : rows[id].last <= clock
    /\ \A w \in Workers :
          phase[w] = "upsert" => /\ now[w] = clock
                                 /\ \A id \in Committed : rows[id].last < now[w]

\* With IInv the inductive invariant of this deployment, over parser.py:98-201
\* and manager.py:50-103.
OneWorkerInv ==
    /\ RestNamesOnce
    /\ SessionCurrent
    /\ SessionNamesOnce
    /\ Clocked
    /\ UniqueRows
    /\ LedgerExact
    /\ ScoreCoherent
    /\ SeenInOrder
=============================================================================
