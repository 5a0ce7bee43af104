----------------------------- MODULE Navigation -----------------------------
(***************************************************************************)
(* Navigation in the page that anon-browse-gui serves and in the terminal  *)
(* browser anon-browse, over the connections of ConnectionCache.  Both     *)
(* keep two stacks of URLs beside the current one, fetch with every move   *)
(* and show an answer when it comes, in whatever order the answers come.   *)
(***************************************************************************)
EXTENDS ConnectionCache, SequencesExt

CONSTANTS
    Urls,       \* absolute URLs of one service
    Sessions    \* lists of pages visited before, each in vain

ASSUME SessionsAssumption == Sessions \subseteq Seq(Urls) /\ <<>> \notin Sessions

VARIABLES
    history, future,
    current,        \* currentUrl, a sequence of at most one URL
    wanted,         \* the URL of a pending fetch
    shown,          \* the URL whose answer, or failure, is on the screen
    overlapped      \* a move was made while a fetch was pending

pageVars == <<history, future, current, wanted, shown, overlapped>>
navigationVars == <<cacheVars, pageVars>>

Pending == {f \in Fetches : pc[f] \notin Finished \cup {"idle"}}
Browser == program \in {"gui", "tui"}

\* A page that was just loaded, or one after moves that have all failed, of which
\* nothing but the URLs and the last error is left.
NavigationInit ==
    /\ CacheInit
    /\ \/ history = <<>> /\ current = <<>>
       \/ \E pages \in Sessions :
             Browser /\ history = Front(pages) /\ current = <<Last(pages)>>
    /\ shown = current
    /\ future = <<>>
    /\ wanted = [f \in Fetches |-> <<>>] /\ overlapped = FALSE

\* fetchAndRender, or the fetch of navigate: f asks for the new current URL.
fetchAndRender(f, u) ==
    /\ startFetch(f)
    /\ current' = u /\ wanted' = [wanted EXCEPT ![f] = u]
    /\ overlapped' = (overlapped \/ Pending # {})
    /\ UNCHANGED shown

\* navigate, navigateTo: a link, the URL bar, a bookmark.
navigate(f) ==
    /\ Browser
    /\ \E u \in Urls : fetchAndRender(f, <<u>>)
    /\ history' = history \o current /\ future' = <<>>

\* Mutant: going back forgets the page it leaves.
goBackForgetful(f) ==
    /\ Browser /\ history # <<>>
    /\ fetchAndRender(f, <<Last(history)>>)
    /\ history' = Front(history) /\ UNCHANGED future

goBack(f) ==
    /\ Browser /\ history # <<>>
    /\ fetchAndRender(f, <<Last(history)>>)
    /\ history' = Front(history) /\ future' = future \o current

goForward(f) ==
    /\ Browser /\ future # <<>>
    /\ fetchAndRender(f, <<Last(future)>>)
    /\ future' = Front(future) /\ history' = history \o current

\* Reload.  The terminal browser calls fetchAndRender without an acquirer and
\* shows the error at once.
reload(f) ==
    /\ Browser /\ current # <<>>
    /\ IF program = "gui" THEN fetchAndRender(f, current)
       ELSE shown' = current /\ UNCHANGED <<cacheVars, current, wanted, overlapped>>
    /\ UNCHANGED <<history, future>>

\* The proxy takes a local connection.
accept(f) == program = "proxy" /\ startFetch(f) /\ UNCHANGED pageVars

\* Fetches that an answer or an error has just come for.
Answered == {f \in Fetches : pc[f] \notin Finished /\ pc'[f] \in Finished}

\* Of several answers that come at once, one is rendered last.
render ==
    IF Answered = {} THEN UNCHANGED shown ELSE \E f \in Answered : shown' = wanted[f]

respond ==
    /\ render
    /\ wanted' = [f \in Fetches |-> IF pc'[f] \in Finished THEN <<>> ELSE wanted[f]]
    /\ UNCHANGED <<history, future, current, overlapped>>

NavigationNext ==
    \/ \E f \in Fetches : navigate(f) \/ goBack(f) \/ goForward(f) \/ reload(f) \/ accept(f)
    \/ CacheStep /\ respond

NavigationSpec == NavigationInit /\ [][NavigationNext]_navigationVars

\* Lookups end, and so do attempts, opens and fetches, by their timers.
NavigationFairness ==
    /\ \A f \in Fetches : WF_navigationVars((lookupEnds(f) \/ fetchFails(f)) /\ respond)
    /\ \A a \in 1..MaxAttempts :
         WF_navigationVars(a \in DOMAIN conns /\ (opened(a) \/ openFails(a)) /\ respond)

FairNavigation == NavigationSpec /\ NavigationFairness

-----------------------------------------------------------------------------
NavigationTypeOK ==
    /\ pc \in [Fetches -> {"idle", "lookup", "waiting", "stream", "fetch", "stranded"} \cup Finished]
    /\ over \in [Fetches -> 0..MaxAttempts]
    /\ \A a \in DOMAIN conns : conns[a].state \in {"opening", "open", "failed", "closed"}
    /\ cached \in 0..Len(conns) /\ inFlight \in 0..Len(conns)
    /\ inFlight # NoAttempt => conns[inFlight].state = "opening"
    /\ cached # NoAttempt => conns[cached].state = "open"

\* The bridge never gives a connection over which a fetch failed to a later
\* fetch, whichever attempts finished in between.
FailedNotReused ==
    program = "gui" =>
        \A f \in Fetches : pc[f] = "failed" /\ over[f] # NoAttempt => over[f] # cached

\* Loads that come together share one connection: always for the proxy, and for
\* the bridge as long as it need not look the descriptor up and nothing failed.
\* (With a lookup they do not: inFlight is set after the await.)
LoadsCoalesced ==
    /\ program = "proxy" => Cardinality({a \in DOMAIN conns : conns[a].state # "failed"}) <= 1
    /\ program = "gui" /\ indexed /\ (\A f \in Fetches : pc[f] # "failed") => Len(conns) <= 1

\* Every fetch settles, but for one whose stream was refused or whose
\* connection was evicted by another fetch before its stream was open.
FetchesSettle ==
    \A f \in Fetches : pc[f] # "idle" ~> pc[f] \in Finished \cup {"stranded"}

\* The screen agrees with the URL bar once nothing is pending, if no move was
\* made while a fetch was pending.  (Otherwise the last answer to come stays.)
ShownIsCurrent ==
    Browser /\ Pending = {} /\ ~overlapped => shown = current

\* The two stacks are the list of pages visited, in both programs.
Visits == INSTANCE BrowsingHistory WITH
    visits <- history \o current \o Reverse(future),
    place <- Len(history) + Len(current)

ImplementsHistory == Visits!Spec

\* Loads share connections, but none that failed, and what is on the screen is
\* what the URL bar names (ensureConn, _evict and navigate).
ConnectionsSound == NavigationTypeOK /\ FailedNotReused /\ LoadsCoalesced /\ ShownIsCurrent
=============================================================================
