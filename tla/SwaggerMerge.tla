------------------------------ MODULE SwaggerMerge ------------------------------
(***************************************************************************)
(* The page GatewaySwaggerMiddleware makes of the API documents of all     *)
(* services the discovery cache lists: one chain of fetches per service,   *)
(* all at once, each going on to the next instance when one gives no       *)
(* document.  A document is the set of paths it describes: one of its      *)
(* service's own, and one that every service describes.                    *)
(***************************************************************************)
EXTENDS BaseProxy, Sequences, SequencesExt

CONSTANTS Service, Shared   \* the services (and their own paths); the shared path

ASSUME SwaggerAssumption == Shared \notin Service

VARIABLES listed,   \* how many instances each service has
          asking,   \* which of them is being fetched from, 0 for none
          failed,   \* how many gave no document (history)
          docs,     \* whose documents came, in this order
          page      \* the merged document: whose description of a path it has

docsVars == <<listed, asking, failed, docs, page>>

NoDocument == << >>   \* {} in the code: a document without paths

DocsInit(listing) ==
    /\ listed = listing
    /\ asking = [s \in Service |-> 0]
    /\ failed = [s \in Service |-> 0]
    /\ docs = << >>
    /\ page = NoDocument

-----------------------------------------------------------------------------
Paths(s) == {s, Shared}

\* { ...acc.paths, ...doc.paths }
Spread(paths, s) ==
    [p \in DOMAIN paths \cup Paths(s) |-> IF p \in Paths(s) THEN s ELSE paths[p]]

MergeDocs(ds) == FoldLeft(Spread, NoDocument, ds)

\* Promise.all: the page is made when the last chain has ended.
WhenAll(chains, ds) ==
    LET all == \A s \in Service : chains[s] = 0
    IN  /\ asking' = chains
        /\ docs' = ds
        /\ done' = all
        /\ page' = IF all THEN MergeDocs(ds) ELSE page

\* use, up to its await.
Use ==
    /\ ~done
    /\ \A s \in Service : asking[s] = 0
    /\ WhenAll([s \in Service |-> IF listed[s] > 0 THEN 1 ELSE 0], docs)
    /\ UNCHANGED <<listed, failed>>

\* The instance answers with a document.
Fetched(s) ==
    /\ asking[s] > 0
    /\ WhenAll([asking EXCEPT ![s] = 0], Append(docs, s))
    /\ UNCHANGED <<listed, failed>>

\* A slip: a fetch that rejects ends the chain.
FetchFailedForGood(s) ==
    /\ asking[s] > 0
    /\ failed' = [failed EXCEPT ![s] = @ + 1]
    /\ WhenAll([asking EXCEPT ![s] = 0], docs)
    /\ UNCHANGED listed

\* It cannot be reached, or answers with something else.
FetchFailed(s) ==
    /\ asking[s] > 0
    /\ failed' = [failed EXCEPT ![s] = @ + 1]
    /\ WhenAll([asking EXCEPT ![s] = IF @ < listed[s] THEN @ + 1 ELSE 0], docs)
    /\ UNCHANGED listed

FetchOver(s) == Fetched(s) \/ FetchFailed(s)

-----------------------------------------------------------------------------
DocsTypeOK ==
    /\ listed \in [Service -> 0 .. MaxInstances]
    /\ \A s \in Service : asking[s] \in 0 .. listed[s]
    /\ \A s \in Service : failed[s] \in 0 .. listed[s]
    /\ IsInjective(docs) /\ ToSet(docs) \subseteq Service
    /\ DOMAIN page \subseteq Service \cup {Shared}

(* The page describes a service exactly when at least one of its instances *)
(* gives a document, in whatever order the services answer, and nobody's   *)
(* own path is described by another; a path that several describe is       *)
(* described by one of them (by the last to answer, whatever the order the *)
(* services were sorted in).                                               *)
AllDocsMerged ==
    done =>
        LET documented == {s \in Service : failed[s] < listed[s]}
        IN  /\ DOMAIN page = UNION {Paths(s) : s \in documented}
            /\ \A s \in documented : page[s] = s
            /\ documented # {} => page[Shared] \in documented

=============================================================================
