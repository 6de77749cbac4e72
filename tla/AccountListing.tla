--------------------------- MODULE AccountListing ---------------------------
(***************************************************************************)
(* accountsByHash of management.go and its two readers: statusPayload,     *)
(* which hides the panel's rows of accounts the host no longer lists or    *)
(* lists as free, and authIsFree, which lets a request of a free account   *)
(* pass unmanaged.  Status calls run at once; the cache of the listing has *)
(* a mutex of its own, released around the call of the host.  The metadata *)
(* of an account is what it decides: whether it is there, and free.        *)
(***************************************************************************)
EXTENDS Naturals, Sequences

CONSTANTS
    Accounts,       \* accounts of the host, and rows of the panel
    Clients,        \* concurrent status calls
    CacheTTL,       \* accountCacheTTL, ten seconds in the code
    MaxTime,        \* bound: the clock stops here
    MaxListings     \* bound: how many listings the host has in the end

ASSUME ListingAssumption == /\ CacheTTL \in Nat \ {0}
                            /\ MaxTime \in Nat \ {0}
                            /\ MaxListings \in Nat \ {0}

VARIABLES
    now,
    listings,   \* the host's listings so far, the last one in force
    rows,       \* accounts of which the runtime holds a row
    byHash,     \* which of the listings the cache holds, 0 for none
    fetchedAt,  \* when it came, 0 for never
    inflight,
    status,     \* the progress of each status call
    shown       \* history: the newest listing a call has answered from

vars == <<now, listings, rows, byHash, fetchedAt, inflight, status, shown>>
cache == <<byHash, fetchedAt, inflight>>

Listings == [Accounts -> {"absent", "free", "paid"}]
None == 0

\* The locals of statusPayload and accountsByHash.  "floor" is a history
\* field: the newest listing answered from before the call began.
Calls == [pc : {"idle", "lookup", "asking", "asked", "view"}, rows : SUBSET Accounts,
          listing : Nat, resolved : BOOLEAN, floor : Nat]
NoCall == [pc |-> "idle", rows |-> {}, listing |-> None, resolved |-> FALSE, floor |-> 0]

\* What a map of accounts says of one of them: nothing, if it is empty.
PlanIn(listing, account) ==
    IF listing = None THEN "absent" ELSE listings[listing][account]

Init ==
    /\ now = 1
    /\ listings \in {<<l>> : l \in Listings}
    /\ rows = {}
    /\ byHash = None /\ fetchedAt = 0 /\ inflight = FALSE
    /\ status = [c \in Clients |-> NoCall]
    /\ shown = 0

-----------------------------------------------------------------------------
\* The first critical section of statusPayload: the rows.
StatusSnapshot(c) ==
    /\ status[c].pc = "idle"
    /\ status' = [status EXCEPT ![c] =
                     [NoCall EXCEPT !.pc = "lookup", !.rows = rows, !.floor = shown]]
    /\ UNCHANGED <<now, listings, rows, cache, shown>>

Fresh == fetchedAt # 0 /\ now - fetchedAt < CacheTTL

\* Mutant: every call that finds the cache stale asks the host.
AsksAlways == ~Fresh
AsksHost == ~Fresh /\ ~inflight

\* accountsByHash up to its call of the host: a fresh listing, or, while
\* another call is at the host, whatever there is, serves at once.
LookupListing(c) ==
    /\ status[c].pc = "lookup"
    /\ IF AsksHost
       THEN /\ inflight' = TRUE
            /\ status' = [status EXCEPT ![c].pc = "asking"]
       ELSE /\ UNCHANGED inflight
            /\ status' = [status EXCEPT ![c].pc = "view", ![c].listing = byHash,
                                        ![c].resolved = Fresh \/ byHash # None]
    /\ UNCHANGED <<now, listings, rows, byHash, fetchedAt, shown>>

\* The host answers with its listing, or not at all.
HostLists(c) ==
    /\ status[c].pc = "asking"
    /\ \E listing \in {None, Len(listings)} :
          status' = [status EXCEPT ![c].pc = "asked", ![c].listing = listing]
    /\ UNCHANGED <<now, listings, rows, cache, shown>>

\* Mutants: a failed call is taken for an empty listing; a failed call
\* returns without clearing the flag.
EmptyIsListed(c) == TRUE
Listed(c) == status[c].listing # None
FailureKeepsFlag(c) == ~Listed(c)
FlagAfter(c) == FALSE

\* The last critical section of accountsByHash: a failure keeps the listing.
StoreListing(c) ==
    /\ status[c].pc = "asked"
    /\ inflight' = FlagAfter(c)
    /\ byHash' = IF Listed(c) THEN status[c].listing ELSE byHash
    /\ fetchedAt' = IF Listed(c) THEN now ELSE fetchedAt
    /\ status' = [status EXCEPT ![c].pc = "view", ![c].listing = byHash',
                                ![c].resolved = Listed(c)]
    /\ UNCHANGED <<now, listings, rows, shown>>

\* The rows of the payload: a listing that resolved hides the others.
Visible(c) ==
    {a \in status[c].rows :
        status[c].resolved => PlanIn(status[c].listing, a) \notin {"absent", "free"}}

StatusReturns(c) ==
    /\ status[c].pc = "view"
    /\ status' = [status EXCEPT ![c] = NoCall]
    /\ shown' = IF status[c].listing > shown THEN status[c].listing ELSE shown
    /\ UNCHANGED <<now, listings, rows, cache>>

\* authIsFree.
AuthIsFree(account) == byHash # None /\ Fresh /\ PlanIn(byHash, account) = "free"

-----------------------------------------------------------------------------
\* The operator adds, removes or upgrades accounts at the host.
HostChanges ==
    /\ Len(listings) < MaxListings
    /\ \E l \in Listings : listings' = Append(listings, l)
    /\ UNCHANGED <<now, rows, cache, status, shown>>

\* The runtime gains and loses rows.
RowsChange ==
    /\ rows' \in SUBSET Accounts
    /\ UNCHANGED <<now, listings, cache, status, shown>>

Tick ==
    /\ now < MaxTime
    /\ now' = now + 1
    /\ UNCHANGED <<listings, rows, cache, status, shown>>

Next == \/ \E c \in Clients : \/ StatusSnapshot(c) \/ LookupListing(c) \/ HostLists(c)
                              \/ StoreListing(c) \/ StatusReturns(c)
        \/ HostChanges \/ RowsChange \/ Tick

Spec == Init /\ [][Next]_vars

-----------------------------------------------------------------------------
TypeOK ==
    /\ now \in 1..MaxTime
    /\ listings \in Seq(Listings) /\ Len(listings) \in 1..MaxListings
    /\ rows \subseteq Accounts
    /\ byHash \in 0..Len(listings)
    /\ fetchedAt \in 0..now
    /\ inflight \in BOOLEAN
    /\ status \in [Clients -> Calls]
    /\ shown \in 0..Len(listings)

AtHost == {c \in Clients : status[c].pc \in {"asking", "asked"}}

\* The flag is up exactly while one call, and no more than one, is at the
\* host: two calls never race to store a listing, and a call that failed does
\* not leave the panel with the old one for ever.
OneListingInFlight ==
    /\ inflight <=> AtHost # {}
    /\ \A c, d \in AtHost : c = d

\* The panel does not go back in time: a call that began after another had
\* answered answers from the same listing or a later one, however calls
\* overlap, host calls fail and listings expire.
ViewsMoveForward ==
    \A c \in Clients : status[c].pc = "view" => status[c].listing >= status[c].floor

\* A row is hidden, and a request of its account passes unmanaged, only on
\* the word of the host, never because it could not be asked.
HiddenOnTheHostsWord ==
    /\ \A c \in Clients : \A a \in status[c].rows \ Visible(c) :
          status[c].pc = "view" =>
              \E l \in 1..Len(listings) : listings[l][a] \in {"absent", "free"}
    /\ \A a \in Accounts : AuthIsFree(a) =>
              \E l \in 1..Len(listings) : listings[l][a] = "free"

=============================================================================
