--------------------------- MODULE IndexPipeline ---------------------------
(***************************************************************************)
(* How the materials index follows the database: the triggers of           *)
(* db/triggers.sql notify materials_channel, the listener publishes each   *)
(* notification to the pgx-events queue, and the consumer rebuilds the     *)
(* document with the resolvers of pgx/config.toml and writes it to         *)
(* Elasticsearch (docker-compose.yml, pgx-listen-rabbitmq and pgx-consume).*)
(*                                                                         *)
(* Every write is one statement in a transaction of its own, as the        *)
(* mutations of the GraphQL server are, so it and its notification commit  *)
(* together.  The consumer's resolvers are statements of their own, so the *)
(* database changes between them.                                          *)
(*                                                                         *)
(* A row's contents are abstracted to a revision that every update flips.  *)
(***************************************************************************)
EXTENDS Integers, Sequences, SequencesExt

CONSTANTS
    Mats,      \* mat_no values
    Children,  \* rows of sizes, colorways and material_features
    Features,  \* those of material_features
    Attrs,     \* rows of feature_attributes
    None,
    MaxWrites  \* bound on the writes of one behaviour

ASSUME FeaturesAreChildren == Features \subseteq Children
ASSUME RowsDistinct ==
    /\ Mats \cap (Children \cup Attrs) = {}
    /\ Children \cap Attrs = {}
    /\ None \notin Mats \cup Children \cup Attrs
ASSUME WritesBounded == MaxWrites \in Nat

VARIABLES
    mats,       \* rows of materials
    owner,      \* mat_no or feature_id of every row, None for a missing row
    rev,        \* revision of every row
    listening,  \* whether the listener has issued its LISTEN
    channel,    \* notifications the listener has not published yet
    queue,      \* RabbitMQ pgx-events
    consumer,   \* what the consumer is doing, and what it has read so far
    index,      \* the documents of the Elasticsearch index
    forsaken,   \* history: materials that changed with no notification to come
    writes      \* history: writes so far

db == <<mats, owner, rev, writes>>
vars == <<db, listening, channel, queue, consumer, index, forsaken>>

Rows == Children \cup Attrs

Idle == [pc |-> "idle", mat |-> None, rev |-> None, children |-> {}, attrs |-> {}]

\* FOREIGN KEYs: what the parent column of a row may refer to.
Parents(r) ==
    IF r \in Children THEN mats ELSE {f \in Features : owner[f] # None}

\* Mutant: no FOREIGN KEY holds a feature with attributes back.
ReferencedNever(r) == FALSE

\* A row that another row refers to cannot be deleted.
Referenced(r) == \E q \in Rows : owner[q] = r

\* The rows each resolver selects.
ChildrenOf(m) == {c \in Children : owner[c] = m}
SelectChildren(rows) == {<<c, rev[c]>> : c \in rows}
SelectAttrs(features) ==
    {<<a, owner[a], rev[a]>> : a \in {b \in Attrs : owner[b] \in features}}

\* The document the contract asks for (pgx/queries/material.graphql).
Document(m) ==
    [rev |-> rev[m], children |-> SelectChildren(ChildrenOf(m)),
     attrs |-> SelectAttrs(ChildrenOf(m) \cap Features)]

Init ==
    /\ mats \in SUBSET Mats
    /\ owner \in [Rows -> Mats \cup Features \cup {None}]
    /\ \A r \in Rows : owner[r] # None => owner[r] \in Parents(r)
    /\ rev = [r \in Mats \cup Rows |-> 0]
    /\ listening = TRUE
    /\ channel = <<>> /\ queue = <<>>
    /\ consumer = Idle
    /\ index = [m \in Mats |-> IF m \in mats THEN Document(m) ELSE None]
    /\ forsaken = {}
    /\ writes = 0
-----------------------------------------------------------------------------
(* The triggers.                                                           *)

\* pg_notify reaches the sessions that listen when the transaction commits.
\* `left` are the materials a moved row was taken away from.
Notify(m, left) ==
    /\ channel' = IF listening /\ m # None THEN Append(channel, m) ELSE channel
    /\ forsaken' = left \cup (IF listening THEN forsaken \ {m} ELSE forsaken \cup ({m} \ {None}))

\* The material a parent value leads to; feature_attributes joins up through
\* material_features.
MaterialOf(r, parent) == IF r \in Children THEN parent ELSE owner[parent]

\* Mutant: NEW is read for a DELETE too, where it is NULL.
NotifiedNew(r, old, new) == IF new = None THEN None ELSE MaterialOf(r, new)

\* Mutant: no trigger on feature_attributes.
NotifiedDirect(r, old, new) ==
    IF r \in Attrs THEN None ELSE IF new = None THEN old ELSE new

\* notify_material_child_change(): OLD for a DELETE, NEW otherwise.
Notified(r, old, new) == MaterialOf(r, IF new = None THEN old ELSE new)

\* The row's parent goes from old to new, None standing for no row.
ChildTrigger(r, old, new) ==
    Notify(Notified(r, old, new),
           IF old = None \/ new = None THEN {} ELSE {MaterialOf(r, old)} \ {MaterialOf(r, new)})

Write == writes < MaxWrites /\ writes' = writes + 1

Untouched == UNCHANGED <<listening, queue, consumer, index>>

Revise(r) == rev' = [rev EXCEPT ![r] = 1 - @]
-----------------------------------------------------------------------------
(* Writes, each with its AFTER trigger.                                    *)

InsertMaterial(m) ==
    /\ Write /\ m \notin mats
    /\ mats' = mats \cup {m}
    /\ Notify(m, {})
    /\ UNCHANGED <<owner, rev>> /\ Untouched

UpdateMaterial(m) ==
    /\ Write /\ m \in mats
    /\ Revise(m)
    /\ Notify(m, {})
    /\ UNCHANGED <<mats, owner>> /\ Untouched

DeleteMaterial(m) ==
    /\ Write /\ m \in mats
    /\ ~Referenced(m)
    /\ mats' = mats \ {m}
    /\ Notify(m, {})
    /\ UNCHANGED <<owner, rev>> /\ Untouched

InsertChild(r, parent) ==
    /\ Write
    /\ owner[r] = None /\ parent \in Parents(r)
    /\ owner' = [owner EXCEPT ![r] = parent]
    /\ ChildTrigger(r, None, parent)
    /\ UNCHANGED <<mats, rev>> /\ Untouched

\* An update in place, or one that moves the row to another parent.
UpdateChild(r, parent) ==
    /\ Write
    /\ owner[r] # None /\ parent \in Parents(r)
    /\ owner' = [owner EXCEPT ![r] = parent]
    /\ Revise(r)
    /\ ChildTrigger(r, owner[r], parent)
    /\ UNCHANGED mats /\ Untouched

DeleteChild(r) ==
    /\ Write
    /\ owner[r] # None /\ ~Referenced(r)
    /\ owner' = [owner EXCEPT ![r] = None]
    /\ ChildTrigger(r, owner[r], None)
    /\ UNCHANGED <<mats, rev>> /\ Untouched
-----------------------------------------------------------------------------
(* The listener.                                                           *)

Publish ==
    /\ channel # <<>>
    /\ queue' = Append(queue, Head(channel))
    /\ channel' = Tail(channel)
    /\ UNCHANGED <<db, listening, consumer, index, forsaken>>

\* The listener stops: what it has not published is lost, and so is what is
\* notified until it listens again.
ListenerStops ==
    /\ listening
    /\ listening' = FALSE
    /\ channel' = <<>>
    /\ forsaken' = forsaken \cup Range(channel)
    /\ UNCHANGED <<db, queue, consumer, index>>

ListenerStarts ==
    /\ ~listening
    /\ listening' = TRUE
    /\ UNCHANGED <<db, channel, queue, consumer, index, forsaken>>
-----------------------------------------------------------------------------
(* The consumer: one message at a time, one resolver after the other.      *)

\* resolvers.material.  A material that is gone has no document to write.
Take ==
    /\ consumer.pc = "idle" /\ queue # <<>>
    /\ queue' = Tail(queue)
    /\ LET m == Head(queue) IN
       consumer' = IF m \in mats
                   THEN [Idle EXCEPT !.pc = "plain", !.mat = m, !.rev = rev[m]]
                   ELSE [Idle EXCEPT !.pc = "gone", !.mat = m]
    /\ UNCHANGED <<db, listening, channel, index, forsaken>>

\* The next resolver is `step`, with what has been read so far.
GoOn(step, children, attrs) ==
    consumer' = [pc |-> step, mat |-> consumer.mat, rev |-> consumer.rev,
                 children |-> children, attrs |-> attrs]

\* resolvers.sizes and resolvers.colorways, of which one stands for both.
ReadPlain ==
    /\ consumer.pc = "plain"
    /\ GoOn("features", SelectChildren(ChildrenOf(consumer.mat) \ Features), {})
    /\ UNCHANGED <<db, listening, channel, queue, index, forsaken>>

\* resolvers.material_features.
ReadFeatures ==
    /\ consumer.pc = "features"
    /\ GoOn("attrs",
            consumer.children \cup SelectChildren(ChildrenOf(consumer.mat) \cap Features), {})
    /\ UNCHANGED <<db, listening, channel, queue, index, forsaken>>

\* resolvers.feature_attributes, for the features just read.
ReadAttrs ==
    /\ consumer.pc = "attrs"
    /\ GoOn("write", consumer.children,
            SelectAttrs({p[1] : p \in consumer.children} \cap Features))
    /\ UNCHANGED <<db, listening, channel, queue, index, forsaken>>

\* The document is written under its mat_no, over what is there.
WriteDocument ==
    /\ consumer.pc = "write"
    /\ index' = [index EXCEPT ![consumer.mat] =
            [rev |-> consumer.rev, children |-> consumer.children, attrs |-> consumer.attrs]]
    /\ consumer' = Idle
    /\ UNCHANGED <<db, listening, channel, queue, forsaken>>

\* on_error = "lenient": the document of a material that is gone is removed
\* or left behind.
SkipGone ==
    /\ consumer.pc = "gone"
    /\ \E left \in {index[consumer.mat], None} : index' = [index EXCEPT ![consumer.mat] = left]
    /\ consumer' = Idle
    /\ UNCHANGED <<db, listening, channel, queue, forsaken>>

\* on_error = "lenient": a message that fails is dropped.
ConsumerDrops ==
    /\ consumer.pc # "idle"
    /\ consumer' = Idle
    /\ forsaken' = forsaken \cup {consumer.mat}
    /\ UNCHANGED <<db, listening, channel, queue, index>>

\* The consumer restarts, and RabbitMQ delivers the message again.
ConsumerRestarts ==
    /\ consumer.pc # "idle"
    /\ queue' = <<consumer.mat>> \o queue
    /\ consumer' = Idle
    /\ UNCHANGED <<db, listening, channel, index, forsaken>>

Consume == Take \/ ReadPlain \/ ReadFeatures \/ ReadAttrs \/ WriteDocument \/ SkipGone

Writes ==
    \/ \E m \in Mats : InsertMaterial(m) \/ UpdateMaterial(m) \/ DeleteMaterial(m)
    \/ \E r \in Rows :
          \/ DeleteChild(r)
          \/ \E parent \in Mats \cup Features : InsertChild(r, parent) \/ UpdateChild(r, parent)

Next ==
    \/ Writes
    \/ Publish \/ ListenerStops \/ ListenerStarts
    \/ Consume \/ ConsumerDrops \/ ConsumerRestarts

Spec == Init /\ [][Next]_vars

\* The listener publishes and the consumer consumes; nothing says that
\* anything is written, lost or restarted.
FairSpec == Spec /\ WF_vars(Publish) /\ WF_vars(Consume)
-----------------------------------------------------------------------------
(* Properties.                                                             *)

\* Types, and the references the FOREIGN KEYs of db/init.sql keep valid.
TypeOK ==
    /\ mats \subseteq Mats
    /\ \A r \in Rows : owner[r] # None => owner[r] \in Parents(r)
    /\ rev \in [Mats \cup Rows -> {0, 1}]
    /\ channel \in Seq(Mats) /\ queue \in Seq(Mats)
    /\ consumer.pc \in {"idle", "gone", "plain", "features", "attrs", "write"}
    /\ consumer.mat \in Mats \cup {None}
    /\ consumer.pc = "idle" => consumer = Idle
    /\ forsaken \subseteq Mats
    /\ ~listening => channel = <<>>

\* A change to the material is still to be indexed.
Pending(m) == m \in Range(channel) \cup Range(queue) \cup {consumer.mat}

Current(m) == index[m] = Document(m)

\* "Consumers of materials_channel re-index the parent" (triggers.sql 1-4):
\* a stale document is always followed by a notification still on its way,
\* although the consumer reads the tables in pieces while they change.  The
\* exceptions are a row that moved away, whose old parent nobody notifies,
\* and a notification lost with the listener or dropped by the consumer.
StaleOnlyWhilePending ==
    \A m \in mats : Current(m) \/ Pending(m) \/ m \in forsaken

\* So once the writes stop every document becomes, and stays, current.
EventuallyIndexed ==
    \/ []<><<ConsumerRestarts>>_vars
    \/ <>[](\A m \in mats : Current(m) \/ m \in forsaken)

\* What the comments say of child tables (triggers.sql 1-4 and 43-45) while
\* nothing is lost: every write to a child leads to the re-indexing of the
\* materials it changed.
ChildWriteReindexesParent ==
    [][ (\E r \in Rows, parent \in Mats \cup Features : UpdateChild(r, parent)) /\ listening
          => \A m \in mats : Document(m) # Document(m)' => m \in Range(channel') ]_vars
=============================================================================
