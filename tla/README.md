# Formal models of asgi-webdav

TLA+ specifications of the parts of asgi-webdav that keep state over time: the
lock table and its handlers, the check of the `If` header, the memory, file
system and WebHDFS providers under concurrent requests, authentication with its
caches, and the way of a request from the mapping of prefixes to the last message
of its response.  TLC checks them on small instances.  For every value of the
constants TLAPS proves theorems about locking, the `If` header, the memory, file
system and WebHDFS providers, authentication, and the way of a GET or PROPFIND to
its response.

Paths below are relative to `src/asgi_webdav/`.

## 1. The system

An ASGI server calls `DAVApp.handle` (`server.py`) for each HTTP request.  It
parses the request (`request.py`), finds the user (`auth.py`, `cache.py`), and
hands over to `WebDAV.distribute` (`web_dav.py`), which picks the provider by the
longest prefix.  The provider's base class (`provider/common.py`) checks the lock
table and the `If` header and calls the concrete provider; the answer becomes a
`DAVResponse`, whose sender (`response.py`) forwards the body's parts.

All of this is one process with one event loop.  A handler is a coroutine: it
runs alone until it awaits something that is not there yet (a body part, an
`asyncio.Lock` someone holds, a file system call in a worker thread, a remote
server), and any number of others may run then.  Between two such points nothing
interleaves, but the wall clock, which locks and caches read, goes on.

| Component | State | Operations | What makes it correct |
|---|---|---|---|
| Lock table (`lock.py`, `DAVLockObj*` in `constants.py`) | two indexes of one set of locks, each lock with an expiry | `new`, `get`, `refresh`, `release`, lookups by path and token (all of which purge) | the indexes agree; locks covering a path are compatible; a lock ends by UNLOCK or expiry alone |
| LOCK, UNLOCK (`common.py`) | what is held between two calls of the table | grant, refresh, release, refusals | what was read still stands when it is used |
| `If` header check (`common.py:219-349`) | the loops' flags and the tokens not yet named | one call of the table or one ETag read at a time | a request passes only with all its locks' tokens, and the verdict is that of the header |
| Memory provider | the dictionary of paths, the lists of children, shared property objects; `fs_lock` | MKCOL, PUT, PROPPATCH, DELETE, COPY, MOVE, reads | the two indexes are one tree; requests take effect in sequence; no request starves |
| File system provider | files, folders, and a property file beside each resource | the same, as several operating system calls each | an undisturbed request acts as if in one step; MOVE loses nothing at any point; refusals write nothing |
| GET and the senders | a generator's place in the body, a compressor's buffer | parse ranges, answer, send | the bytes asked for, in order, with the announced length, ended once |
| WebHDFS provider | none (remote) | each request is several remote calls, each of which may fail | what an answer says has been done; a MOVE never loses its source |
| Routing | prefixes in order of length, filled at start | match, distribute | the longest prefix wins; permissions are looked at for both paths |
| Authentication (`auth.py`, `cache.py`) | the cache of Basic credentials, the names user objects carry | Basic, Digest, anonymous; a check at LDAP waits for an answer | a cached credential is one that was right, no longer ago than allowed; a request is its user's from check to answer |
| Application (`server.py`) | the requests in progress | `handle`: authenticate, distribute, serve | permissions and home directories keep a request to what is its user's |
| CORS, debug middleware, hidden files, web pages, configuration, logging | none, or read once at start | functions of one request | unit tests reach it |

What is hard: the lock table is consulted in several calls while locks expire;
the memory provider checks locks *before* it waits for `fs_lock`; a PUT holds
`fs_lock` for as long as its client takes to send the body; every file system
call is a point where other requests run; a COPY or MOVE is many changes to two
indexes; parts, ranges and compressors meet at the end of a body; a credential is
stored in the cache after a wait at the LDAP server during which passwords change;
a request to HDFS is several calls, and any may be refused or lost.
`PROJECT.json` lists each hazard at its line, with the properties that watch it.

## 2. The modules

```
DAVPaths ── DAVLockKeeper ── DAVLocking ─┬─ DAVLockingRefines ··implements··> LockService
   │        (lock table)   (LOCK/UNLOCK) ├─ DAVIfHeader
   │                                     └──────┐
   ├─ MemoryFS ── MemoryTree ───────────── MemoryProvider ··implements··> MemoryTree
   │  (tree)      (sequential)             (concurrent)
   └───────┐
DAVAuth ── WebHDFSProvider ── DAVApp ··implements··> DAVAuth
(users)    (remote calls)     (a request from header to answer)

FileSystem ── FileSystemProvider ── FileSystemPromises        GetResponse ── WebDAV
(the disk)    (one call a step)     (what each promises)      (body, senders) (routing)
```

A `MC*` module instantiates a specification for TLC.  A `*Claims` module states
something that a comment or docstring says of the code and that does not hold.
A `*Proofs` module holds theorems about the module it is named after.

**DAVPaths** – paths as sequences of segments, ancestors, `is_parent_of`.

**DAVLockKeeper** – `DAVPath2LockInfoMap` and what it stores.  `token2lock_obj` and
`path2lock_obj_set` are the two dictionaries.  Python's purging lookups become two
operators each: what is dropped (`ExpiredFrom`) and what is returned
(`LockObjsFromPath`).

**DAVLocking** – `do_lock` and `do_unlock`.  A handler makes two calls of the
keeper; `call` is what it holds in between.  No await separates the calls, so no
other handler runs (`NoneRunning`), but `Tick` may: a lock read as live may be
expired when it is refreshed.  The lookups of other requests are actions, because
they purge.

**LockService** – what the table promises, without indexes, depths or purging: a
lock is the set of paths it covers, its scope and its expiry.  `DAVLockingRefines`
maps the two dictionaries to it and states `ImplementsService`.

**DAVIfHeader** – `_check_request_ifs_with_res_paths`, one call of the keeper a
step, with the local variables of both methods.  At an ETag condition the handler
is suspended and LOCK, UNLOCK and the clock run.  The input is the parsed header.

**MemoryFS, MemoryTree** – the memory provider's tree.  Nodes refer to property
objects on a heap, since a COPY of Depth 1 makes two nodes share one.  Each
request is a function from the file system to a new one and a status; 500 stands
for an uncaught exception, with what was done before it.

**MemoryProvider** – tasks, each of which serves requests: the check of the lock
table, then `fs_lock` (first come, first served, as `asyncio.Lock` is), then the
tree; a PUT stops between parts of its body with `fs_lock` held.  Composes
MemoryTree and DAVLocking.  `ActsInSequence` states that it does what one request
after the other would.  `granted` is history: the tokens handed out before a
request's check of the lock table.

**FileSystem** – the disk: names to file objects, and what `open`, `write`,
`rename`, `rmtree`, `copytree` do to it (external; as POSIX has it and as the code
uses it).  An open file outlives its name.

**FileSystemProvider** – each handler as a chain of steps that are one call each
(`at` names the next one), with the exceptions that are caught and those that are
not.  **FileSystemPromises** states, per request, the outcomes it may have on what
it found, and compares.

**GetResponse** – what becomes of a GET whose resource is known: parsing of `Range`,
`get_response_content_range`, `_do_get` of the three providers, `do_get`, the choice
of a sender, the body generators and the senders.  Bytes are positions; what a
compressor puts out is how far a client can decode it.

**WebDAV** – class `WebDAV`: the mapping of prefixes, `match_provider`, the permission
check and dispatch of `distribute`, GET by GetResponse, and PROPFIND with the
providers mapped directly below the path, by a provider that keeps a tree or by
the WebHDFS provider, which asks HDFS for the members (`RemotePropfind`) of a path
below the user's home (`Home`).  It is one exchange: the mapping and the request
are chosen, then `Distribute` answers and the sender's steps follow.

**DAVAuth** – `DAVAuth.pick_out_user`, `HTTPBasicAuth`, the kinds of passwords and
the three caches.  A user is an object (`User`): that of an account, or the copy of
the LDAP fallback that is made for one credential and given its name.  `login` is
how far each request has come; between `PickOutBasic` and `Checked` it waits for
the LDAP server, whose `directory` may change (`ChangePassword`), as may the clock.
`last_right` is history: when a credential that is wrong now was right last.
Hashes are free of collisions, so a digest is modelled as what it is the digest of.

**WebHDFSProvider** – each request as its calls to the HDFS server: the looks of
`_precheck_source`, then one call or two that act.  `Call` and `Look` are the three
things that can become of a call: carried out, refused (`HTTPStatusError`, which
most handlers turn into an answer and `_exists` into "not there"), or lost with or
without its effect (an exception nobody catches: 500).  `hdfs` is what the server
holds; what its operations do to it is external (`PutAt`, `Without`, `Renamed`): a
RENAME of what is not there, or onto a file, does nothing and is not an error, and one
onto a folder moves the source into it, as HDFS does.

**DAVApp** – `DAVApp.handle` with several requests in progress: DAVAuth, then the
permissions of `distribute`, then WebHDFSProvider, with every interleaving of their
waits.  `seen` is history: what a request found when it began, as long as no other
request in progress is about the same resources.

## 3. The runs

| Run | Instance | Shows |
|---|---|---|
| `locking` | 3 paths (a folder, two members), 3 tokens, clock 0..2, a useless and a maximal timeout | type, index agreement, scopes, compatibility, no stale use, only UNLOCK ends a live lock, refinement of LockService |
| `if_header` | 2 paths, 2 tokens, clock 0..1, 8 headers with every kind of condition | no request passes without its tokens; the verdict is the header's |
| `memory_tree` | 6 paths, two chains of 3 levels, at most 7 nodes, 2 contents, 2 values of dead properties | one tree; refusals change nothing; a COPY brings every node with its content, and the properties of what it names and of the folders in it; a flat MOVE brings everything; neither touches anything else |
| `memory_provider` | 4 paths, 2 tasks, 1 token, clock 0..1, one-part bodies | a PUT's findings stand until it ends; requests act in sequence; no request changes what it names against a lock granted before its check |
| `memory_liveness` | 1 path, 3 tasks, two-part bodies | every request is answered |
| `file_system` | 4 paths, 2 tasks, two-part bodies | undisturbed requests act alone; MOVE loses nothing; GET sends the file; refusals write nothing |
| `web_dav` | GET: files of 0..5 bytes in parts of 2, all ranges over 0..6, 4 `Accept-Encoding`; GET and PROPFIND: all mappings of up to three prefixes in any order, 5 paths, 3 sets of permissions | the right bytes, the announced length and range, one end; the deepest prefix answers; a listing is what GETs would find |
| `dav_app` | 2 requests at a time; 4 families of configurations (below), clock as ages, 4 paths | who is let in was right lately; a request is its user's throughout; what changes in HDFS is that user's; a success of MKCOL, DELETE, PUT, or a MOVE of something that can be moved, means done; a 4xx means undone, but for a cleared destination; a MOVE keeps its source |
| `locking_expired_child` | 3 paths, 2 tokens | **violated**: an expired lock below a folder refuses a LOCK of the folder |
| `memory_move_depth` | as `memory_tree` | **violated**: a MOVE drops what is two levels down |
| `memory_waited_lock` | as `memory_provider` | **violated**: a request that waited for `fs_lock` ignores a lock granted meanwhile |
| `file_system_move_props` | 4 paths, 1 task | **violated**: a MOVE leaves the overwritten resource's properties |

Why the instances are large enough, and what they leave out:

* *Locks.*  Compatibility involves two locks; a third token gives a bystander
  that a lookup may purge by mistake.  A folder and two members give all relations
  of two paths: same, above, beside; the two members are interchangeable, as the
  tokens are (`LockSymmetry`).  Two ticks let a lock be granted, expire, and
  be refreshed too late.
* *Memory tree.*  Three levels are the least at which a recursion that stops after
  one level loses something.  `Orderly` is a bound on clients: they create nothing
  below a file, and copy or move nothing onto itself, below or above itself.
  Outside of it the properties fail (section 6).  `Fits` keeps results inside
  `Path`.  A COPY of a folder below itself does not terminate in the code and is
  left out.  Dead properties and contents have two
  values each, so that what is lost or mixed up shows.  With them a second child in each
  folder is beyond TLC: that several children are carried and kept is proved (section 4).
* *Memory provider.*  One task in a PUT and one that arrives are enough for every
  pair of handlers, LOCK and UNLOCK come on top.  The liveness run takes three
  tasks, so that a newcomer and a woken waiter compete, and has no locks.
* *File system.*  Two tasks at every call.  COPY and MOVE go from `a` to `b`; `rmtree`
  and `copytree` are one step each; no resource is itself named like a property file.
  Sources and destinations of COPY and MOVE are apart, and `Path` has room for the
  source at the destination (`ProviderAssumption`).  `Alike` leaves out a COPY that
  finds a file where it brings a folder, or a folder where it brings a file, deeper in
  the tree: `copytree` copies such a file into the folder, and raises for such a folder
  when the rest has been copied.  The comparison is for requests whose resources no
  concurrent request touched (`alone`): others may interleave in ways nothing in the
  code excludes.  A `PermissionError` is modelled where the code catches it, at the
  `open` of a PUT (403); no other call fails for want of a permission or of room, and
  the property files hold what the server wrote (section 5).  COPY onto a resource of
  the other kind is left out of the comparison (`Clash`).
* *Routing.*  Prefixes are distinct (`ExchangeAssumption`: the code accepts two
  providers for one prefix and answers by whichever the sort leaves first) and one, two
  levels deep or the root, so that every two of them are nested or apart, with a folder
  of the same name behind a prefix or not.  `prefix_weight` is the length of the
  prefix's text; since only prefixes that are above one path compete, its number of
  segments orders them the same way.  What is behind a prefix is a tree.  A listing of
  Depth infinity stops at mapped prefixes after one level (the code says TODO) and is
  compared with nothing.
* *GET.*  Parts of 2 with 0 to 5 bytes give no, one, two and three parts, and last
  parts that are full and not full.  What the resource is does not change during
  the exchange (for that, see `GetSendsTheFile` in `file_system`).  The announced
  length is taken to be the length of the file, which for the memory provider is
  so only before the first overwrite (section 6).  Empty files of WebHDFS are left
  out.  The model is one exchange and stops: its runs do not check deadlock.
* *The server.*  `dav_app` chooses a configuration at the start.  `Cached`: one user of
  the LDAP fallback, whose password changes while the LDAP server is asked, with
  each cache and timeouts that are negative, 0, 1 and 2.  `Homes`: two users of the
  fallback with a home directory each, who PUT and DELETE under the same path.
  `Shared`: every request that changes something, without home directories.
  `Logins`: every kind of account and of header, including an account without
  permission.  An LDAP server answers within `CheckTime` seconds (the bound of
  `MaxAge`; nothing in the code limits it, `AcceptedIsRecent` says how it enters).
  `AppView` keeps ages instead of times, cut off where no comparison sees a
  difference, so that the clock is not bounded.  Two requests are enough for one
  to check, cache or rename while the other waits; a property about HDFS is of a
  request whose resources no other request is about (`seen[t].alone`).  `AppAssumption`
  says what a configuration is: what HDFS holds is a tree; the destination of a MOVE
  is below the prefix of its provider, as `do_move` asks (`common.py:1075`); a user's
  name is a segment of a path; and, a bound, nobody deletes the root of HDFS, which
  HDFS keeps.  The MOVEs of `Shared` are onto themselves, apart, into what is below
  the source and onto the folder above it; the last deletes the source with the
  destination (section 6), and `MoveKeepsSource` leaves it out.
  `SuccessIsDone` is about MKCOL, DELETE, PUT and MOVE.  Of a PUT whose client has
  gone it asks for the part that came.  Of a MOVE it asks for the source at the
  destination and nothing at the source (`Moved`), which a RENAME that does nothing does not
  meet, and so it has premises that the code does not check (`CanMove`): the source is
  there, neither path is above the other, and HDFS showed whether the destination is
  there.  Without the first the promise is broken (section 6).  A PROPPATCH is
  answered with a success and stores nothing (section 6), COPY and HEAD change nothing
  (COPY raises `NotImplementedError`): these three are not covered.  `ErrorOnlyClears` is
  about answers from 400 to 499; after the 500 of a lost call anything the call
  does may have happened.
  `AcceptedIsRecent` is about Basic credentials.  Digest is modelled with the HA1 that the
  code computes, which is empty for passwords kept as a hash or at LDAP (`Ha1`, section
  6); the Digest headers of the instance are made from a password, so none meets an
  empty HA1, and no property is about that case.
  A listing of WebHDFS in `web_dav` is of a server that refuses no look.
* `VIEW`s drop the last response, and names of property and file objects where
  only identity matters.  `SYMMETRY` is used for tokens and tasks, and not in the
  liveness run.

**Fairness** (`FairSpecProvider`).  `WakeUp` is strongly fair: a released
`asyncio.Lock` schedules its first waiter, and the event loop runs every scheduled
callback in its next round, whoever else runs in between.  `Body` is weakly fair:
it stands for a client that sends the next part or goes away, which the ASGI
server reports.  A lock handler that has started ends, because it does not
suspend.  Arrivals and the clock are not fair.

## 4. What is proved

Each theorem holds for every value of the constants that satisfies the assumptions of
its modules, which TLC evaluates in the runs: paths are sequences of segments
(`PathAssumption`); the root is not in `Path`, parents of paths are, and the empty body
and "no property" are values (`FSAssumption`); the maximum timeout is a positive number
(`TimeoutAssumption`); the timeouts of headers are integers, the marks for "no token"
and "bad token" are no tokens, and the clock is bounded by a number
(`HandlerAssumption`); a parsed If header has no empty list of conditions and "no etag"
is no etag (`IfAssumption`); what arrives of a PUT's body is a content
(`RequestAssumption`); the sizes of blocks and pages are numbers, that of a block
positive (`BlockSizeAssumption`); what is configured and asked is of the kinds the code
parses, what a provider keeps is a tree, and no two providers have one prefix
(`ExchangeAssumption`); accounts, headers and passwords belong together
(`AuthAssumption`); the server's requests are of the methods it models, with a
destination below the prefix, and what HDFS holds at first is a tree (`AppAssumption`,
section 3); the folder that is served is not a path of its own, and the parents of paths
are paths (`FileAssumption`); a body has at least one part, and what is copied or moved
neither is above or below where it goes nor runs out of `Path` there
(`ProviderAssumption`); `MaxNodes` is a number and `Orderly` a Boolean (`MemoryTree`).
As their statements show, the theorems about the memory tree have `Orderly` as a
hypothesis, and the one about the concurrent memory provider has `~Orderly`.

**Locks** (`DAVPathsProofs`, `DAVLockingProofs`).
`TypeCorrect`, `IndexesAlwaysAgree`, `ScopeOfSetAlways`, `LocksAlwaysCompatible`,
`WhatIsHeldAlwaysStands`, `OnlyUnlockEndsLiveLockAlways`, `RefreshAlwaysLeavesLive`, and
`LockingImplementsService`: initial states map to initial states and every step to
a grant, a refresh, a release, a reclaim or a stutter.  None of the invariants is
inductive alone.  Compatibility after a grant needs the handler's list of covering
locks to be complete when it is used (`WhatIsHeldStands`), the list is complete
because the index by path misses no lock (`IndexesAgree`), the scope comparison uses
what the set recorded (`ScopeOfSet`), and each of these is preserved only because
the others hold.  `Inv` is their conjunction with the type invariant.  First come
lemmas about the methods of the table whoever calls them (`KeeperInv`), then one
case per action.  For the refinement, a refresh must map to a `Refresh` that leaves
the lock live, which needs `RefreshLeavesLive`: a handler refreshes only what it
found live, and with the lock's own timeout in reserve when the header's is
useless.

**The `If` header** (`DAVIfHeaderProofs`).  `PassedAlwaysHoldsAllLocks`: a request that
passes without being suspended names the token of every live lock on what it goes
on to change.  The invariant adds to `Inv` that the cursors of the three nested
loops point into their lists, and `Accounted`: every live lock on a resource already
collected is still among the tokens to check off, or is named by the header.  It
survives time, because locks only expire and never come back, and it survives the
table's own purging; it ends when another handler runs, which is why suspended
checks are excluded.  `LockingKeptByChecks` says that checks leave `Inv` alone.

`VerdictAlwaysWhatHeaderSays`: when neither another handler nor the clock comes in
between, the verdict is what the header says.  The three loops decide it with two
flags that are set, kept and reset on the way.  `VInv` reads them (`Right`): the
resources behind the loops each have a list all of whose conditions hold, and the
lists of the present one that are behind do not (`SoFar`); what the flags claim of
the present list is so of the conditions up to the cursor (`Going`, `Judged`); and the
tokens still unchecked are locks on the resources that no list that let a resource
pass submits (`Withheld`).  The conditions are read against the live locks, a
function of the table that its own purging does not change (`LiveStays`,
`ToldOfLive`), so that what was found of a condition is still so at the end.

**The memory tree** (`MemoryTreeProofs`).  For orderly clients (`Orderly`, section 3)
`OneTreeAlways`, `RefusedNeverChanges`, `OthersNeverTouched`, `TreeTypeOKAlways`,
`CopyAlwaysWhole` and `FlatMoveAlwaysWhole`.  `OneTree` looks at
each node's parent only, but `del_tree` and `copy_node` walk over children from the
top, and what they find is all that lies below only if every ancestor of a node
lists the next.  That would take an induction over the depth of paths, which the
provers cannot do here; the invariant `WellFormed` therefore says it of all
ancestors at once (`Linked`), and each operation preserves it directly:
`DelTreeEffect` (a subtree leaves), `AddTreeEffect` (a tree of nodes is grafted below
a folder), `CopiedFromIsTaken` and `CopyGrafts` (what a copy of any Depth takes is
closed towards the source, so its image is such a tree).  From `NodesHang`, that
every node can be deleted, follows that no pop of `del_tree` raises half-way.
What nodes carry needs a second invariant, `HeapTyped`: the nodes are finitely many,
each refers to a property object that is there, and there are no others.  So a number
that is not in use exists, and a new object is new (`FreshIsNew`); that gives
`TreeTypeOK`.  With it `CopyAlwaysWhole`: a COPY brings every node with its content, and
the properties of what it names and of the folders in it, the files in them excluded
(section 6); and `FlatMoveAlwaysWhole`: a flat MOVE brings content and
properties of everything it takes.

**The memory provider** (`MemoryProviderProofs`).  `ProviderTypeCorrect`,
`PutAlwaysStands`, `OnlyLaterLocksAlwaysIgnored`, and `ProviderActsInSequence`: each
step is one request of MemoryTree or a stutter.  The first part of the invariant is the
ownership of `fs_lock`: its queue holds each waiting task once, and a PUT that receives
parts is the owner, so nothing it found changes until it ends.  The second part is about
locks: of those that stand against a request when it changes the tree, none is older
than its check, however long it waited in between.  That needs the lock table's
invariant (the lookup by path misses no lock, `IndexesAgree`), that a token once purged
or released never comes back, so that whatever is in `granted` and live later was live
at the check, and that a refresh changes nothing of a lock but its time.  It is about
the locks the code asks for: of the resource that a PUT, PROPPATCH, DELETE, COPY or MOVE
names, and of its destination.  MKCOL asks for none, and nobody asks for those on the
members of a collection (section 6).  `ProviderActsInSequence` is for clients without
the bound `Orderly`, as is the run.

**The file system provider** (`FileSystemProofs`).  `FilesAreTyped`,
`MoveKeepsWhatItMoves`, `EachActsAsOneStep`, `GetSendsWhatItFound` and
`RefusedWroteNothing`, for any number of requests at a time.  The invariant (`FSInv`)
has three layers.  `DiskOK` holds whatever requests do to each other: a name is in
folders all the way up and no file has two names.  `TaskOK` says at which call a
request of each method can be, and that it has written nothing as long as it only
asks.  `Reached` is about requests that are alone with their resources: what the
disk shows of these is a function of what the request found and of the call it is
at.  That a call of another request keeps `Reached` does not follow from the names
alone.  It may write to a file that it has open and that has another name by now
(`Apart`: never one of a request that is alone), and a COPY makes the folders above
its destination where they are missing (`Standing`: it has seen the parent, and of
folders in the scope of a request that is alone it finds none missing since).
`StepKeeps` collects what a call must do for all of this (`Writes`, `Goes`), and each
handler is then shown to do that (`Handled`), with the outcome promised when it ends
(`Ended`).  What `rename` and `copytree` do to a tree is proved from their
definitions (`RenameOK`, `CopyOverOK`), and that a tree and its property file, carried
in two calls, come out as the one promised image (`DoneFacts`).

**Authentication** (`DAVAppProofs`).  `OneselfAlways` and `RecentAlways`:
a request runs as the user whose credential it bears, and what let it in was right
no longer ago than the cache allows and a check takes.  `AuthInv` says of the cache,
of each running check and of each user object's name what they stand for: an entry
was right at a time not before its own less the length of a check; a copy of the
fallback carries the name of the one credential it was made for.  That a time of
being right is never forgotten (`last_right`) carries it over changes of passwords.
`AppImplementsAuth` shows that the server, with the calls to HDFS in between, does
to authentication what DAVAuth does alone, and `AppTypeCorrect`, `AppOneself` and
`AppRecent` bring the results over.

**Calls to HDFS** (`DAVAppProofs`).  `ChangesOnlyOwnAlways`, `SuccessIsDoneAlways`,
`ErrorOnlyClearsAlways` and `MoveKeepsSourceAlways`, for any number of requests at a
time, each call of which may be refused or lost.  The proof has two halves.  What a
call can do to HDFS is a short list (`Outcome`: a request goes on, only answers, has
carried out what it is for, or has cleared its destination), shown once for each
action (`StepOutcome`); whatever it is, a tree stays a tree, and nothing changes but
below the request's targets, or new folders above them (`OutcomeConfined`, from
`PutAtConfined`, `WithoutConfined` and `RenamedConfined`).  The invariant (`HdfsInv`)
says that a request in progress is one of its user's, or permitted (`Underway`), so
that its targets do not change when users come and go (`PathsStay`, which needs the
names that authentication keeps); and of one that has been alone, what is below
its targets in terms of what it found and the call it is at (`Watched`, `Reached`).
A request of someone else keeps `Reached` because its targets are neither above nor
below, so that all it shows there are folders above (`Upper`, `OthersElsewhere`).  A
MOVE that can move (`CanMove`, section 3) finds its destination clear at the RENAME,
which therefore makes `Moved` of the two.  What
an answer means then follows from what the calls do to two stores that agree below
the targets (`PutAtSame`, `WithoutSame`, `RenamedSame`, `MoveIsDone`).

**GET, senders and routing** (`WebDAVProofs`).  `AlwaysSendsTheSlice`,
`OnlyLastAlwaysEnds`, `LengthAlwaysKept` and `PartAlwaysNamed` for every file, range,
size of parts and sender; `AlwaysSentByOwner` and `AlwaysListsWhatIsThere` for every
mapping.  The promises speak of the end of an exchange; `AnswerInv` says how far it
is: what is configured stays (`Configured`), the response spans the bytes that were
asked for (`Spanned`), the generator's place and what a compressor holds back follow
from what was sent (`Sending`), the file is the one that the mapping has at the path
(`Found`), and a listing, once made, is that of the path (`Listed`).  The mapping is
sorted by length only, and `FirstIsOwner` is why the first match is the deepest:
two prefixes of one path of the same length are the same.  For a listing, what a
provider keeps below a folder belongs to it unless a deeper prefix is in between
(`MemberOwner`), and the folder's own members and the providers mapped into it are
together what GETs would find (`MembersKept`, `OwnListing`).

**Only model-checked.**  `EveryRequestIsAnswered`, since liveness under fairness is out
of the prover's reach.  The four statements of the violation runs, which do not
hold.  Every other property of a run is a theorem.

## 5. What is not modelled

* The CORS and debug middleware and the hiding of files in listings: functions of
  one request or of a name, without state.
* Configuration, command line and logging, which are read or set up once at start;
  the pages of the administrator, the development tools and the launchers.
* Of the modelled components: the XML of PROPFIND and PROPPATCH, HEAD and OPTIONS
  of the local providers, parsing of headers other than `Range`, date and ETag
  formats.  Hash functions, LDAP's protocol and the nonces of Digest, of which the
  code keeps no account, are external.  What a resource of HDFS is like beyond
  being a folder or a file with content.
* Errors of the operating system other than those that follow from what the disk
  holds and the `PermissionError` of a PUT's `open`: a full disk, an unreadable file.  The
  property files of the file system provider are written by the server only, and
  writing one (`open` and truncate, then the text) is one step: the answer 409 of a
  PROPPATCH that finds one that is not JSON (`file_system.py:91-93`) is left out, and
  so is the reading of it by a GET.

## 6. Where code and documentation part

The four violation runs are findings with quotes in `PROJECT.json`.  Further
divergences met while modelling; the models follow the code:

* `Timeout: Infinite` is not recognised (`request.py:321`): the lock's timeout is 0
  and it is expired when granted.  Timeouts above the maximum are accepted
  (`lock.py:62`).
* UNLOCK with a token that does not lock the path answers 403, the docstring says
  409 (`common.py:1262`).
* DELETE and MOVE look at the locks on the resource itself, not at those on its
  members (`common.py:871`, `1080`), and the members' locks stay in the table.  MKCOL
  looks at no lock.
* A LOCK with a `Not` or an ETag condition in its `If` header is answered 500: nobody
  catches the `NotImplementedError` (`common.py:1164`).  So is Basic data that is not
  UTF-8 (`auth.py:277`).
* HA1 is empty for passwords that are kept as a hash, at LDAP, or in a form that is not
  understood (`auth.py:475-476`), and `HTTPDigestAuth` goes on with it, where
  `docs/guide/protect-your-password-in-the-config.en.md:186-192` says that Digest is not
  supported for them.  No property is about it, and no run exercises it.
* Memory provider: PUT and MKCOL below a file succeed (`memory.py:583`), and DELETE
  of the file leaves what is below; a MOVE onto itself deletes the resource
  (`293`); a COPY of Depth 1 shares property objects with its source (`266`), a COPY of a
  folder gives the files in it the dates, ETag, announced length and dead properties of
  the folder (`274-275`), where the comment above (`251`) says "deepcopy child to dst";
  a COPY of Depth 0 can change the kind of the destination; a PUT over a file
  leaves its ETag and announced length as they were (`43-45`, `property.py:33`); the
  news that a client is gone ends a PUT with success (`591`); PROPFIND of Depth 1
  leaves the resource itself out (`453`), and that of an empty folder is 404.
* File system provider: of two PROPPATCHes at a time one is lost
  (`file_system.py:84`); two PUTs mix; `_copy_dir_depth0` makes the destination
  before it answers 412 (`490`); MKCOL below a file and COPY into one are
  answered 500 (`NotADirectoryError`, which nobody catches).
* WebHDFS: an empty file's only body part is `None` (`webhdfs.py:326`), every
  answer has a `Content-Range`, also a 200.  MOVE deletes the destination before the
  rename, which may fail, and that DELETE lacks the `doAs` of the other calls
  (`420`).  What a RENAME answers is not read, nor whether there is a source: after a
  DELETE of `a`, a MOVE of `a` onto `b` deletes `b`, moves nothing and is answered 204,
  where `common.py:1028-1032` says that the source was successfully moved.  So is a
  RENAME onto a file that HDFS refused to show, and one onto a folder that HDFS
  refused to show, moving the source into it, too; a MOVE onto a folder above
  its source deletes the source.  PROPPATCH answers 207 with "200 OK" for each property and
  stores nothing (`224-228`), where `docs/reference/provider/webhdfs.en.md:80` has "Not
  supported".  A PUT whose client goes away stores the part that came and is
  answered as a success.  MKCOL's branch for 415 is never reached.
  PROPFIND names members by their path in HDFS, without the mapped prefix, and the
  filter by permissions looks at that path; a refused LISTSTATUS gives a folder
  without members; Depth infinity is answered 500.
* A mismatched `If-Range` is answered 200 without the file, where a comment says
  otherwise (`web_dav.py:380-381`, `401`).
* The EXPIRING cache reads the local wall clock (`cache.py:112`): where that is set
  back, entries live longer than the documented timeout.  The model's clock does not
  go back.
* A range of one byte, one that starts with the last byte, or one that ends beyond
  the file is answered with the whole file (`common.py:54-68`, `request.py:111`).
* COPY and MOVE accept a destination that a longer prefix maps to another provider
  (`common.py:998`).
* `prefix_provider_mapping` belongs to the class (`web_dav.py:106`).

## 7. Plan

Done, in this order: lock table and handlers; their proofs; the abstract lock
service and the refinement; the `If` header; the memory tree; the concurrent memory
provider; the file system provider; GET and the senders; routing and PROPFIND;
authentication; the WebHDFS provider; the server that composes them; proofs about
authentication, the `If` header, the memory provider and its tree, GET and routing,
the file system provider, and the calls to HDFS.

What is left:

1. COPY and MOVE in `WebDAV` with nested prefixes, once the code decides what a
   destination of another provider means (section 6).
2. The handlers of `provider/common.py` for HEAD and OPTIONS, and home directories
   of the file system provider (`_get_fs_path`).
3. What an answer means when requests do meet: which of the promises of `DAVApp` and
   `FileSystemPromises` are left to two requests about the same resource.
