--------------------------- MODULE SqsPublication ---------------------------
(***************************************************************************)
(* From the qualifications of the service to what a SAGE host believes:    *)
(*   Publisher.publish (publisher.py) and the bundles table                *)
(*   (repository.py), the published bundle as the API serves it (api.py)   *)
(*   and as it lies in replica files, `sage model sqs-sync` (cli.py,       *)
(*   sqs_client.py), and the cache it feeds (sqs_cache.py) with the lookup *)
(*   that answers from it (sqs_qualification.py).                          *)
(*                                                                         *)
(* A bundle is its revision and a verdict per capability of one model and  *)
(* one profile.  Authority and publication epoch are one, so the revision  *)
(* is the identity of a bundle.  What the qualifications are at the moment *)
(* of a publication is left open: see SqsEvaluation.                       *)
(***************************************************************************)
EXTENDS Naturals

CONSTANTS
    BundleCapabilities,    \* capabilities a route is qualified for
    Publishers,      \* processes that publish: ADMIN consoles, the publish command
    MaxRevision,     \* bound: revisions published
    MaxCrashes,      \* bound: synchronisations killed
    MaxLosses        \* bound: cached generations lost on the host

ASSUME SqsPublicationAssumption ==
    MaxRevision \in Nat /\ MaxCrashes \in Nat /\ MaxLosses \in Nat

VARIABLES
    bundles,     \* the bundles table, by revision
    pub,         \* what each publisher has read and does next
    tmp,         \* the temporary file all publishers share, NoBundle when there is none
    file,        \* the replica file
    current,     \* the host's current generation
    previous,    \* the host's previous generation
    tombstones,  \* revision that denied each capability on the host, 0 without one
    sync,        \* what the synchronisation does
    crashes, losses,
    word         \* history variable: the latest explicit verdict on each capability
                 \* among the bundles the host began to accept

server == <<bundles, pub, tmp, file>>
host == <<current, previous, tombstones, sync, word>>
publicationVars == <<server, host, crashes, losses>>

Revisions == 1 .. MaxRevision
Verdicts == {"NONE", "QUALIFIED", "NOT_QUALIFIED"}
Rows == [BundleCapabilities -> Verdicts]
Nothing == [c \in BundleCapabilities |-> "NONE"]
Bundles == [rev : 0 .. MaxRevision, rows : Rows]
NoBundle == [rev |-> 0, rows |-> Nothing]

PubSteps == {"idle", "collected", "numbered", "stored", "written"}
SyncSteps == {"idle", "valid", "committed", "rotated"}
PubIdle == [pc |-> "idle", bundle |-> NoBundle]
SyncIdle == [pc |-> "idle", bundle |-> NoBundle]

PublicationTypeOK ==
    /\ bundles \in [Revisions -> Bundles]
    /\ pub \in [Publishers -> [pc : PubSteps, bundle : Bundles]]
    /\ {tmp, file, current, previous} \subseteq Bundles
    /\ tombstones \in [BundleCapabilities -> 0 .. MaxRevision]
    /\ sync \in [pc : SyncSteps, bundle : Bundles]
    /\ word \in [BundleCapabilities -> [rev : 0 .. MaxRevision, verdict : Verdicts]]
    /\ crashes \in 0 .. MaxCrashes /\ losses \in 0 .. MaxLosses

PublicationInit ==
    /\ bundles = [r \in Revisions |-> NoBundle]
    /\ pub = [p \in Publishers |-> PubIdle]
    /\ tmp = NoBundle /\ file = NoBundle
    /\ current = NoBundle /\ previous = NoBundle
    /\ tombstones = [c \in BundleCapabilities |-> 0]
    /\ sync = SyncIdle
    /\ crashes = 0 /\ losses = 0
    /\ word = [c \in BundleCapabilities |-> [rev |-> 0, verdict |-> "NONE"]]

----------------------------------------------------------------------------
(***************************************************************************)
(* A publication: the rows are read, then the next revision, and each is   *)
(* used in a later statement; the files come last.  Nothing obliges a      *)
(* publisher to go on: one that is killed is one that does not.            *)
(***************************************************************************)

Published == {r \in Revisions : bundles[r] # NoBundle}
Newest == IF Published = {} THEN 0 ELSE CHOOSE r \in Published : \A q \in Published : q <= r

CollectRows(p) ==
    /\ pub[p].pc = "idle" /\ Newest < MaxRevision
    /\ \E rows \in Rows :
          pub' = [pub EXCEPT ![p] = [pc |-> "collected", bundle |-> [rev |-> 0, rows |-> rows]]]
    /\ UNCHANGED <<bundles, tmp, file, host, crashes, losses>>

TakeRevision(p) ==
    /\ pub[p].pc = "collected" /\ Newest < MaxRevision
    /\ pub' = [pub EXCEPT ![p] =
                  [pc |-> "numbered", bundle |-> [rev |-> Newest + 1, rows |-> pub[p].bundle.rows]]]
    /\ UNCHANGED <<bundles, tmp, file, host, crashes, losses>>

\* Mutant: INSERT OR REPLACE.
StoreReplacing(p) ==
    /\ pub[p].pc = "numbered"
    /\ bundles' = [bundles EXCEPT ![pub[p].bundle.rev] = pub[p].bundle]
    /\ pub' = [pub EXCEPT ![p].pc = "stored"]
    /\ UNCHANGED <<tmp, file, host, crashes, losses>>

\* The revision is the primary key: the later of two publishers raises.
StoreBundle(p) ==
    /\ pub[p].pc = "numbered"
    /\ IF pub[p].bundle.rev \notin Published
         THEN /\ bundles' = [bundles EXCEPT ![pub[p].bundle.rev] = pub[p].bundle]
              /\ pub' = [pub EXCEPT ![p].pc = "stored"]
         ELSE /\ pub' = [pub EXCEPT ![p] = PubIdle]
              /\ UNCHANGED bundles
    /\ UNCHANGED <<tmp, file, host, crashes, losses>>

\* tmp.write_text, whole: a host refuses a file whose hash is wrong.  The audit
\* row before it is left out.
WriteTmp(p) ==
    /\ pub[p].pc = "stored"
    /\ tmp' = pub[p].bundle
    /\ pub' = [pub EXCEPT ![p] = [PubIdle EXCEPT !.pc = "written"]]
    /\ UNCHANGED <<bundles, file, host, crashes, losses>>

\* tmp.replace takes what lies there, another publisher's bundle perhaps; when the
\* other one has moved it away, it raises.
ReplaceFile(p) ==
    /\ pub[p].pc = "written"
    /\ file' = IF tmp = NoBundle THEN file ELSE tmp
    /\ tmp' = NoBundle
    /\ pub' = [pub EXCEPT ![p] = PubIdle]
    /\ UNCHANGED <<bundles, host, crashes, losses>>

Publish(p) == CollectRows(p) \/ TakeRevision(p) \/ StoreBundle(p) \/ WriteTmp(p) \/ ReplaceFile(p)

----------------------------------------------------------------------------
(***************************************************************************)
(* sage model sqs-sync.                                                    *)
(***************************************************************************)

\* rollback_floor: the later of the two generations, either of which may be gone.
Floor == IF current.rev > previous.rev THEN current.rev ELSE previous.rev

\* A bundle that does not advance past the floor is rejected before any write.
Validate(bundle) ==
    /\ sync.pc = "idle" /\ bundle.rev > Floor
    /\ sync' = [pc |-> "valid", bundle |-> bundle]
    /\ UNCHANGED <<server, current, previous, tombstones, word, crashes, losses>>

\* GET /bundle: current_published_bundle; 503 as long as there is none.
Fetch == Newest > 0 /\ Validate(bundles[Newest])

\* The API is down, and the next endpoint serves the replica file.
FetchReplica == file # NoBundle /\ Validate(file)

\* Mutant: a capability the bundle does not mention is forgiven.
MergedForgiving(b) ==
    [c \in BundleCapabilities |-> IF b.rows[c] = "NOT_QUALIFIED" THEN b.rev ELSE 0]

\* A denial is recorded unless a later one is known, and only an explicit
\* qualification of a later bundle takes it back.
Merged(b) ==
    [c \in BundleCapabilities |->
        CASE b.rev <= tombstones[c] -> tombstones[c]
          [] b.rev > tombstones[c] /\ b.rows[c] = "NOT_QUALIFIED" -> b.rev
          [] b.rev > tombstones[c] /\ b.rows[c] = "QUALIFIED" -> 0
          [] OTHER -> tombstones[c]]

CommitTombstones ==
    /\ sync.pc = "valid"
    /\ tombstones' = Merged(sync.bundle)
    /\ word' = [c \in BundleCapabilities |->
           IF sync.bundle.rows[c] # "NONE" /\ sync.bundle.rev > word[c].rev
             THEN [rev |-> sync.bundle.rev, verdict |-> sync.bundle.rows[c]] ELSE word[c]]
    /\ sync' = [sync EXCEPT !.pc = "committed"]
    /\ UNCHANGED <<server, current, previous, crashes, losses>>

\* Mutant: the new generation is copied to both files.
RotatePreviousNew ==
    /\ sync.pc = "committed"
    /\ previous' = sync.bundle
    /\ sync' = [sync EXCEPT !.pc = "rotated"]
    /\ UNCHANGED <<server, current, tombstones, word, crashes, losses>>

\* _rotate_in: two files, replaced one after the other.
RotatePrevious ==
    /\ sync.pc = "committed"
    /\ previous' = IF current # NoBundle THEN current ELSE previous
    /\ sync' = [sync EXCEPT !.pc = "rotated"]
    /\ UNCHANGED <<server, current, tombstones, word, crashes, losses>>

RotateCurrent ==
    /\ sync.pc = "rotated"
    /\ current' = sync.bundle
    /\ sync' = SyncIdle
    /\ UNCHANGED <<server, previous, tombstones, word, crashes, losses>>

SyncStops ==
    /\ sync.pc # "idle" /\ crashes < MaxCrashes
    /\ sync' = SyncIdle
    /\ crashes' = crashes + 1
    /\ UNCHANGED <<server, current, previous, tombstones, word, losses>>

\* A generation that is missing or does not parse counts as absent.
LoseGeneration ==
    /\ losses < MaxLosses /\ sync.pc = "idle"
    /\ \/ current # NoBundle /\ current' = NoBundle /\ UNCHANGED previous
       \/ previous # NoBundle /\ previous' = NoBundle /\ UNCHANGED current
    /\ losses' = losses + 1
    /\ UNCHANGED <<server, tombstones, sync, word, crashes>>

AcceptBundle == CommitTombstones \/ RotatePrevious \/ RotateCurrent

PublicationNext ==
    \/ \E p \in Publishers : Publish(p)
    \/ Fetch \/ FetchReplica \/ AcceptBundle \/ SyncStops \/ LoseGeneration

PublicationSpec == PublicationInit /\ [][PublicationNext]_publicationVars

\* The operator repeats the synchronisation, and the API answers again and
\* again; a synchronisation that is not killed runs on.
PublicationFairSpec == PublicationSpec /\ SF_publicationVars(Fetch) /\ WF_publicationVars(AcceptBundle)

----------------------------------------------------------------------------
(***************************************************************************)
(* Properties.                                                             *)
(***************************************************************************)

\* lookup_qualification: a tombstone speaks first.
Lookup(c) == IF tombstones[c] # 0 THEN "NOT_QUALIFIED" ELSE current.rows[c]

\* Whatever the publishers' race, a revision names one bundle wherever a copy of
\* it is: in the replica file or its temporary one, in transfer, in either generation of a host.
RevisionNamesOneBundle ==
    \A b \in {tmp, file, current, previous, sync.bundle} \ {NoBundle} : b = bundles[b.rev]

\* A host never shows a route as qualified against the latest explicit verdict it
\* has committed to: not after a crash between tombstones and generations, not
\* when a generation is lost and an older bundle is offered by a replica, not
\* because later bundles say nothing of the route (module docstring, sqs_cache.py).
NeverQualifiedAgainstDenial ==
    \A c \in BundleCapabilities : Lookup(c) = "QUALIFIED" => word[c].verdict = "QUALIFIED"

\* A new current generation is later than every generation still on the host.
NoRollback ==
    [][current' \notin {current, NoBundle}
          => current.rev < current'.rev /\ previous.rev < current'.rev]_current

\* A host that goes on synchronising shows the newest bundle in the end, whatever
\* was killed or lost on the way: nothing it keeps can refuse it for ever.
HostCatchesUp == <>[](Newest > 0 => current.rev = Newest)
============================================================================
