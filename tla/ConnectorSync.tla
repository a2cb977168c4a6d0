---------------------------- MODULE ConnectorSync ----------------------------
(***************************************************************************)
(* The connectors: on a schedule, each source in turn is asked for what is *)
(* newer than its stored cursor, each item is submitted to the pipeline,   *)
(* and the cursor goes to the marker of the last one.  Two passes may      *)
(* overlap; an exception ends a pass wherever it is.                       *)
(*                                                                         *)
(* A marker is the moment of a document's last modification, 0 no          *)
(* document.  Sources are "folder", "bucket", "drive" (Google Drive),      *)
(* "share" (SharePoint) or "mail" (Outlook, UpKeep).                       *)
(***************************************************************************)
EXTENDS Naturals, Sequences, FiniteSets

CONSTANTS
    Configurations,  \* connectors.json: sequences of [id, kind, builds] records
    Docs,
    Home(_),     \* the id of the source a document is in
    Workers,
    Limit,       \* max_files, max_emails, max_items
    MaxMoment,   \* bound: moments at which something is modified
    MaxFaults,   \* bound: exceptions and failed downloads
    None

VARIABLES
    connectors, \* the sources that could be built, in order
    now,
    modified,   \* the marker of each document
    cursor,     \* connector:<id>, by place among the connectors
    at,         \* the place of the connector each pass is at, 0 none
    listing,    \* what fetch has yet to yield
    last,       \* the marker of the last item, 0 before it, None before the listing
    submitted,  \* the versions submitted, <<document, marker>>
    failed,     \* the versions whose download failed and was skipped
    owed,       \* the versions that were there before a pass, and nothing under way
    faults
pass == <<at, listing, last>>
vars == <<connectors, now, modified, cursor, at, listing, last, submitted, failed, owed,
          faults>>

\* load_connectors: a source that cannot be built is left out, the others sync.
Load(configured) == SelectSeq(configured, LAMBDA entry : entry.builds)

\* A source's cursor is kept under its id: two that are built do not have the same.
ConnectorAssumption ==
    /\ Limit \in Nat \ {0} /\ MaxMoment \in Nat /\ MaxFaults \in Nat /\ None \notin Nat
    /\ \A configured \in Configurations :
          LET built == Load(configured)
          IN /\ built \in Seq({configured[i] : i \in DOMAIN configured})
             /\ \A i, j \in DOMAIN built : built[i].id = built[j].id => i = j
             /\ \A i \in DOMAIN built :
                   built[i].kind \in {"folder", "bucket", "drive", "share", "mail"}

Fault == faults < MaxFaults /\ faults' = faults + 1
In(c) == {d \in Docs : Home(d) = connectors[c].id /\ modified[d] > 0}
Newer(c) == {d \in In(c) : modified[d] > cursor[c]}

\* The Limit oldest of the files; among equals, any.
Oldest(files) ==
    {first \in SUBSET files :
        /\ Cardinality(first) = IF Cardinality(files) < Limit THEN Cardinality(files)
                                ELSE Limit
        /\ \A d \in first, e \in files \ first : modified[d] <= modified[e]}

\* Of the oldest of everything, those that are newer.
Kept(c) == {files \cap Newer(c) : files \in Oldest(In(c))}

-----------------------------------------------------------------------------
(* fetch, by kind *)

\* A folder and a bucket list everything; of what Drive has newer, it sends the oldest;
\* of a share or a mailbox the oldest are kept, and only then the newer of them.  Drive
\* without credentials, and a mailbox without a token, yield nothing.
Listings(c) ==
    CASE connectors[c].kind \in {"folder", "bucket"} -> {Newer(c)}
      [] connectors[c].kind = "drive" -> Oldest(Newer(c)) \cup {{}}
      [] connectors[c].kind = "share" -> Kept(c)
      [] connectors[c].kind = "mail" -> Kept(c) \cup {{}}

\* Each listing comes with the markers it was sorted by.
Entry(d) == <<d, modified[d]>>

\* Mutant: the cursor is moved with each item, before the item is submitted.
FetchAhead(w) ==
    /\ at[w] > 0 /\ last[w] = None
    /\ \E files \in Listings(at[w]) :
          /\ listing' = [listing EXCEPT ![w] = {Entry(d) : d \in files}]
          /\ cursor' = [cursor EXCEPT ![at[w]] =
                           IF files = {} THEN @ ELSE modified[CHOOSE d \in files : TRUE]]
          /\ last' = [last EXCEPT ![w] = cursor'[at[w]]]
    /\ UNCHANGED <<connectors, now, modified, at, submitted, failed, owed, faults>>

Fetch(w) ==
    /\ at[w] > 0 /\ last[w] = None
    /\ \E files \in Listings(at[w]) :
          listing' = [listing EXCEPT ![w] = {Entry(d) : d \in files}]
    /\ last' = [last EXCEPT ![w] = 0]
    /\ UNCHANGED <<connectors, now, modified, cursor, at, submitted, failed, owed,
                   faults>>

NextEntry(w, e) == e \in listing[w] /\ \A other \in listing[w] : e[2] <= other[2]

\* A folder's file is read, and its time taken again, only when its turn comes.
Submit(w) ==
    \E e \in listing[w] :
        /\ NextEntry(w, e)
        /\ LET version == IF connectors[at[w]].kind = "folder" THEN Entry(e[1]) ELSE e
           IN /\ submitted' = submitted \cup {version}
              /\ last' = [last EXCEPT ![w] = version[2]]
        /\ listing' = [listing EXCEPT ![w] = @ \ {e}]
        /\ UNCHANGED <<connectors, now, modified, cursor, at, failed, owed, faults>>

\* A download that fails from Drive or from a share is passed over.
DownloadFails(w) ==
    \E e \in listing[w] :
        /\ NextEntry(w, e) /\ Fault
        /\ connectors[at[w]].kind \in {"drive", "share"}
        /\ failed' = failed \cup {e}
        /\ listing' = [listing EXCEPT ![w] = @ \ {e}]
        /\ UNCHANGED <<connectors, now, modified, cursor, at, last, submitted, owed>>

-----------------------------------------------------------------------------
(* sync_all *)

\* What is newer than its source's cursor, and whose moment is over.
Settled == {d \in Docs : /\ modified[d] < now
                         /\ \E c \in DOMAIN connectors : d \in Newer(c)}

Begin(w) ==
    /\ at[w] = 0 /\ connectors # <<>>
    /\ at' = [at EXCEPT ![w] = 1]
    /\ owed' = IF \A other \in Workers : at[other] = 0
               THEN owed \cup {Entry(d) : d \in Settled} ELSE owed
    /\ UNCHANGED <<connectors, now, modified, cursor, listing, last, submitted, failed,
                   faults>>

\* The cursor was read with the listing; it is written when the source is through, if it
\* yielded anything.
SetCursor(w) ==
    /\ at[w] > 0 /\ last[w] # None /\ listing[w] = {}
    /\ cursor' = [cursor EXCEPT ![at[w]] = IF last[w] = 0 THEN @ ELSE last[w]]
    /\ last' = [last EXCEPT ![w] = None]
    /\ at' = [at EXCEPT ![w] = IF @ = Len(connectors) THEN 0 ELSE @ + 1]
    /\ UNCHANGED <<connectors, now, modified, listing, submitted, failed, owed, faults>>

\* A listing, a read or a submission raises: the sources after this one are not asked.
PassFails(w) ==
    /\ at[w] > 0 /\ Fault
    /\ at' = [at EXCEPT ![w] = 0]
    /\ listing' = [listing EXCEPT ![w] = {}]
    /\ last' = [last EXCEPT ![w] = None]
    /\ UNCHANGED <<connectors, now, modified, cursor, submitted, failed, owed>>

-----------------------------------------------------------------------------
Modify ==
    /\ \E d \in Docs : modified' = [modified EXCEPT ![d] = now]
    /\ UNCHANGED <<connectors, now, cursor, pass, submitted, failed, owed, faults>>

Wait ==
    /\ now < MaxMoment /\ now' = now + 1
    /\ UNCHANGED <<connectors, modified, cursor, pass, submitted, failed, owed, faults>>

Init ==
    /\ \E configured \in Configurations : connectors = Load(configured)
    /\ now = 1 /\ modified = [d \in Docs |-> 0]
    /\ cursor = [c \in DOMAIN connectors |-> 0]
    /\ at = [w \in Workers |-> 0]
    /\ listing = [w \in Workers |-> {}] /\ last = [w \in Workers |-> None]
    /\ submitted = {} /\ failed = {} /\ owed = {} /\ faults = 0

Sync(w) == Begin(w) \/ Fetch(w) \/ Submit(w) \/ SetCursor(w)

Next == \/ Modify \/ Wait
        \/ \E w \in Workers : Sync(w) \/ DownloadFails(w) \/ PassFails(w)

\* The schedule begins pass after pass, and a pass goes on.
Fairness == \A w \in Workers : WF_vars(Sync(w))

Spec == Init /\ [][Next]_vars /\ Fairness

-----------------------------------------------------------------------------
(* Properties *)

Twin(e) == \E other \in submitted \cup failed :
               other[1] # e[1] /\ Home(other[1]) = Home(e[1]) /\ other[2] = e[2]

\* What was there, newer than its source's cursor, before a pass began is behind the
\* cursor only if it was submitted or modified again, its own download failed, or another
\* document of the source has the very same time; whatever else fails and however two
\* passes overlap ("the cursor skips seen files").
NothingPassedOver ==
    \A c \in DOMAIN connectors, e \in owed :
        (e[1] \in In(c) /\ modified[e[1]] = e[2] /\ cursor[c] >= e[2])
            => e \in submitted \cup failed \/ Twin(e)

\* "Pulls files changed since the last sync" (SharePointConnector), and likewise mails and
\* work orders.
ChangedIsPulled ==
    \A d \in Docs, m \in 1..MaxMoment :
        (<<d, m>> \in owed /\ modified[d] = m)
            ~> (<<d, m>> \in submitted \cup failed \/ modified[d] # m)
=============================================================================
