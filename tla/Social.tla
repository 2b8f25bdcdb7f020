------------------------------- MODULE Social -------------------------------
(* The community page of the web client: the store of hooks/use-social.ts, *)
(* its copy in the browser's storage, the one-time hydration from the      *)
(* Community API, the requests that mirror every click there, and what the *)
(* page rendered last.                                                     *)
(*                                                                         *)
(* The store object is mutated in place and useSyncExternalStore compares  *)
(* it by identity, so a change of the store does not render the page: what *)
(* is shown is what some other cause (a tab, a dialog, a market tick)      *)
(* rendered last, and the handlers of the page close over it.              *)
EXTENDS Integers, Sequences, FiniteSets, Functions, Selection

CONSTANTS
    Seeds,       \* posts both sides are seeded with
    Traders,     \* authors that can be followed
    Flags,       \* what can be toggled on a post: liked, reposted, bookmarked, saved, muted
    Counted,     \* the flags a post keeps a count of
    Visits,      \* mounts of the page, each of which may hydrate
    MaxClicks,   \* bound on the user's mutations and sign-outs, and on writes that fail
    MaxReloads   \* bound on the reloads of the tab

VARIABLES
    local,       \* the module's state: posts, comments, following, followers, unread
    storage,     \* pkay.social.v1
    unsaved,     \* whether the store and its copy have parted since the last load
    serial,      \* the counters behind p-n and c-n
    synced,      \* serverSynced
    visit,       \* what each mount's hydration is waiting for, and what it has been answered
    seen,        \* the page as last rendered: posts in the feed, and who is followed
    wire,        \* mutations on their way to the server, in the order they were fired
    server,      \* the server's store
    clicks, reloads, lapsed \* bounds, and whether a request was lost or crossed a hydration

vars == <<local, storage, unsaved, serial, synced, visit, seen, wire, server, clicks, reloads,
    lapsed>>
stored == <<storage, unsaved>>
budgets == <<clicks, reloads>>

NoOne == [kind |-> "none", n |-> 0]
Id(k, n) == [kind |-> k, n |-> n]
Post(id, mine) ==
    [id |-> id, mine |-> mine, flags |-> {}, count |-> [c \in Counted |-> 0], blocked |-> FALSE]
Comment(id, post, parent, mine) ==
    [id |-> id, post |-> post, parent |-> parent, mine |-> mine,
     flags |-> {}, reported |-> FALSE, deleted |-> FALSE]

\* The content both sides start from. The server has a reply more, whose id is the
\* one that the tab gives its own first comment: cid() counts on from the seed.
SeedPosts ==
    CHOOSE s \in Injection(1..Cardinality(Seeds), {Post(Id("seed", n), FALSE) : n \in Seeds}) : TRUE
SeedComments == <<Comment(Id("seed", 1), SeedPosts[1].id, NoOne, FALSE)>>
ServerComments ==
    Append(SeedComments, Comment(Id("own", 1), SeedPosts[1].id, SeedComments[1].id, FALSE))
Seed ==
    [posts |-> SeedPosts, comments |-> SeedComments, following |-> {},
     followers |-> [u \in Traders |-> 0], unread |-> 0]
Nothing == [posts |-> <<>>, comments |-> <<>>, following |-> {},
            followers |-> [u \in Traders |-> 0], unread |-> -1]

\* feedForTab: neither blocked nor muted. The tabs only narrow it further.
Hidden(p) == p.blocked \/ "muted" \in p.flags
Feed(posts) == Only(posts, {i \in DOMAIN posts : ~Hidden(posts[i])})
Rendered(s) == [posts |-> Feed(s.posts), comments |-> s.comments, following |-> s.following]

\* load: the seed, overlaid with what was stored. An empty list of posts does not count.
Loaded ==
    IF storage = Nothing THEN Seed
    ELSE [storage EXCEPT !.posts = IF storage.posts = <<>> THEN SeedPosts ELSE @]

Init ==
    /\ local = Seed /\ storage = Nothing /\ unsaved = FALSE
    /\ serial = [post |-> 0, comment |-> 0]
    /\ synced = FALSE /\ visit = [v \in Visits |-> [at |-> "unmounted"]]
    /\ seen = Rendered(Seed) /\ wire = <<>>
    /\ server = [Seed EXCEPT !.comments = ServerComments]
    /\ clicks = 0 /\ reloads = 0 /\ lapsed = FALSE

-----------------------------------------------------------------------------
\* The mutations, as both sides carry them out.

Flip(set, x) == IF x \in set THEN set \ {x} ELSE set \cup {x}
\* Mutant: the count goes up with every click.
ToggledUp(p, f) ==
    [p EXCEPT !.flags = Flip(@, f),
              !.count = [c \in Counted |-> IF c # f THEN @[c] ELSE @[c] + 1]]
Toggled(p, f) ==
    [p EXCEPT !.flags = Flip(@, f),
              !.count = [c \in Counted |->
                  IF c # f THEN @[c] ELSE IF f \in p.flags THEN @[c] - 1 ELSE @[c] + 1]]
OnPost(s, id, Change(_)) ==
    [s EXCEPT !.posts = [i \in DOMAIN @ |-> IF @[i].id = id THEN Change(@[i]) ELSE @[i]]]
\* The client means the comment of an id under its post, the server that of the id.
Called(s, id) == {i \in DOMAIN s.comments : s.comments[i].id = id}
Meant(s, c) == {i \in Called(s, c.id) : s.comments[i].post = c.post}
OnComments(s, which, Change(_)) ==
    [s EXCEPT !.comments = [i \in DOMAIN @ |-> IF i \in which THEN Change(@[i]) ELSE @[i]]]
TogglePost(s, id, f) == OnPost(s, id, LAMBDA p : Toggled(p, f))
BlockPost(s, id) == OnPost(s, id, LAMBDA p : [p EXCEPT !.blocked = TRUE])
ToggleComment(s, which, f) == OnComments(s, which, LAMBDA c : [c EXCEPT !.flags = Flip(@, f)])
DeleteComment(s, which) == OnComments(s, which, LAMBDA c : [c EXCEPT !.deleted = TRUE])
ReportComment(s, which) == OnComments(s, which, LAMBDA c : [c EXCEPT !.reported = TRUE])
AddPost(s, id) == [s EXCEPT !.posts = <<Post(id, TRUE)>> \o @]
AddComment(s, id, post, parent) ==
    [s EXCEPT !.comments = <<Comment(id, post, parent, TRUE)>> \o @, !.unread = @ + 1]
Follow(s, u) ==
    IF u \in s.following THEN s
    ELSE [s EXCEPT !.following = @ \cup {u}, !.followers[u] = @ + 1, !.unread = @ + 1]
\* The client counts a follower down whether or not the trader was followed.
Lesser(n) == IF n > 0 THEN n - 1 ELSE 0
Unfollow(s, u) == [s EXCEPT !.following = @ \ {u}, !.followers[u] = Lesser(@)]
MarkRead(s) == [s EXCEPT !.unread = 0]

Ids(seq) == {seq[i].id : i \in DOMAIN seq}

\* The server: 404 for what it does not know, 403 for a comment of somebody else.
Handled(s, m) ==
    CASE m.op = "toggle" -> TogglePost(s, m.id, m.flag)
      [] m.op = "block" -> OnPost(s, m.id, LAMBDA p :
            [p EXCEPT !.blocked = TRUE, !.flags = @ \ {"muted"}])
      [] m.op = "post" -> AddPost(s, Id("server", Len(s.posts)))
      [] m.op = "comment" ->
            IF m.id \in Ids(s.posts) /\ m.parent \in Ids(s.comments) \cup {NoOne}
            THEN [s EXCEPT !.comments = Append(@,
                      Comment(Id("server", Len(s.comments)), m.id, m.parent, TRUE)),
                           !.unread = @ + 1]
            ELSE s
      [] m.op = "toggleComment" -> ToggleComment(s, Called(s, m.id), m.flag)
      [] m.op = "delete" ->
            DeleteComment(s, {i \in Called(s, m.id) : s.comments[i].mine})
      [] m.op = "report" -> ReportComment(s, Called(s, m.id))
      [] m.op = "follow" -> Follow(s, m.id)
      [] m.op = "unfollow" -> IF m.id \in s.following THEN Unfollow(s, m.id) ELSE s
      [] m.op = "read" -> MarkRead(s)

-----------------------------------------------------------------------------
Spend(n) == clicks' = clicks + n /\ clicks' <= MaxClicks
\* persist, after n clicks: a storage that is full or forbidden keeps what it has, and
\* nothing is said.
Persist(new, n) ==
    \/ storage' = new /\ unsaved' = FALSE /\ Spend(n)
    \/ storage # new /\ unsaved' = TRUE /\ Spend(n + 1) /\ UNCHANGED storage
\* A click: commit changes the store and persists it; the request is fired as
\* the argument of mirrorServer, whether or not the store is synced.
Hydrating == \E v \in Visits : visit[v].at \in {"answered", "comments", "commented"}
Click(new, m) ==
    /\ local' = new /\ Persist(new, 1)
    /\ wire' = Append(wire,
          [k \in DOMAIN m \cup {"synced"} |-> IF k = "synced" THEN synced ELSE m[k]])
    /\ lapsed' = (lapsed \/ Hydrating)
    /\ UNCHANGED <<synced, visit, seen, server, reloads>>
Same == UNCHANGED serial

Shown == Ids(seen.posts)
ShownComments == {c \in {seen.comments[i] : i \in DOMAIN seen.comments} : ~c.deleted}

ClickToggle(id, f) ==
    /\ id \in Shown
    /\ Click(TogglePost(local, id, f), [op |-> "toggle", id |-> id, flag |-> f]) /\ Same
ClickBlock(id) ==
    /\ id \in Shown
    /\ Click(BlockPost(local, id), [op |-> "block", id |-> id]) /\ Same
ClickPost ==
    /\ serial' = [serial EXCEPT !.post = @ + 1]
    /\ Click(AddPost(local, Id("own", serial'.post)), [op |-> "post"])
\* Replies are offered on what is not deleted; the thread nests them one level deep.
ClickComment(id) ==
    /\ id \in Shown /\ serial' = [serial EXCEPT !.comment = @ + 1]
    /\ \E parent \in {NoOne} \cup {c.id : c \in {d \in ShownComments : d.post = id}} :
         Click(AddComment(local, Id("own", serial'.comment), id, parent),
               [op |-> "comment", id |-> id, parent |-> parent])
ClickOnComment(c) ==
    \/ Click(ToggleComment(local, Meant(local, c), "liked"),
             [op |-> "toggleComment", id |-> c.id, flag |-> "liked"])
    \/ c.mine /\ Click(DeleteComment(local, Meant(local, c)),
                       [op |-> "delete", id |-> c.id])
    \/ ~c.reported /\ Click(ReportComment(local, Meant(local, c)),
                             [op |-> "report", id |-> c.id])
\* The button follows or unfollows by what the page showed, not by the store.
ClickFollow(u) ==
    /\ IF u \in seen.following
       THEN Click(Unfollow(local, u), [op |-> "unfollow", id |-> u])
       ELSE Click(Follow(local, u), [op |-> "follow", id |-> u])
    /\ Same
\* The bell in the navigation bar.
ClickRead == Click(MarkRead(local), [op |-> "read"]) /\ Same

Clicking ==
    \/ \E id \in Shown : ClickBlock(id) \/ ClickComment(id) \/ \E f \in Flags : ClickToggle(id, f)
    \/ ClickPost \/ ClickRead
    \/ \E c \in ShownComments : ClickOnComment(c) /\ Same
    \/ \E u \in Traders : ClickFollow(u)

\* Anything else that renders the page: a tab, a dialog, the end of the skeleton, a tick.
Render ==
    /\ seen' = Rendered(local)
    /\ UNCHANGED <<local, stored, serial, synced, visit, wire, server, clicks, reloads, lapsed>>

-----------------------------------------------------------------------------
\* hydrateCommunityFromServer, once for every mount that finds the store unsynced.
SetVisit(v, r) == visit' = [visit EXCEPT ![v] = r]
Mount(v) ==
    /\ visit[v].at = "unmounted"
    /\ SetVisit(v, [at |-> IF synced THEN "done" ELSE "asked"])
    /\ seen' = Rendered(local)
    /\ UNCHANGED <<local, stored, serial, synced, wire, server, budgets, lapsed>>

\* Feed, users and notifications are asked together and read by the server here.
AnswerFeed(v) ==
    /\ visit[v].at = "asked"
    /\ SetVisit(v, [at |-> "answered",
          posts |-> Only(server.posts, {i \in DOMAIN server.posts : ~server.posts[i].blocked}),
          followers |-> server.followers, unread |-> server.unread])
    /\ lapsed' = (lapsed \/ wire # <<>>)
    /\ UNCHANGED <<local, stored, serial, synced, seen, wire, server, budgets>>

\* The answers are put in the store, not yet persisted, and the comments are asked.
ApplyFeed(v) ==
    /\ visit[v].at = "answered"
    /\ local' = [local EXCEPT !.posts = visit[v].posts, !.followers = visit[v].followers,
                              !.unread = visit[v].unread]
    /\ SetVisit(v, [at |-> "comments", posts |-> Ids(visit[v].posts)])
    /\ UNCHANGED <<stored, serial, synced, seen, wire, server, budgets, lapsed>>

\* Comments of the first eight posts; a list that cannot be had is an empty one.
AnswerComments(v) ==
    /\ visit[v].at = "comments"
    /\ \E got \in {visit[v].posts, {}} :
         SetVisit(v, [at |-> "commented",
           comments |-> Only(server.comments,
               {i \in DOMAIN server.comments : server.comments[i].post \in got})])
    /\ lapsed' = (lapsed \/ wire # <<>>)
    /\ UNCHANGED <<local, stored, serial, synced, seen, wire, server, budgets>>
Finish(v) ==
    /\ visit[v].at = "commented"
    /\ local' = [local EXCEPT !.comments = visit[v].comments] /\ Persist(local', 0)
    /\ synced' = TRUE /\ SetVisit(v, [at |-> "done"])
    /\ UNCHANGED <<serial, seen, wire, server, reloads, lapsed>>

\* One of the first three calls fails: the local content stays.
Unreachable(v) ==
    /\ visit[v].at = "asked" /\ SetVisit(v, [at |-> "done"])
    /\ UNCHANGED <<local, stored, serial, synced, seen, wire, server, budgets, lapsed>>

Hydration == \E v \in Visits :
    Mount(v) \/ AnswerFeed(v) \/ ApplyFeed(v) \/ AnswerComments(v) \/ Finish(v) \/ Unreachable(v)

-----------------------------------------------------------------------------
\* Requests travel on their own connections: any of them may be handled next, or lost.
Without(ms, i) == SubSeq(ms, 1, i - 1) \o SubSeq(ms, i + 1, Len(ms))
Serve(i) ==
    /\ i \in DOMAIN wire /\ server' = Handled(server, wire[i])
    /\ wire' = Without(wire, i)
    /\ UNCHANGED <<local, stored, serial, synced, visit, seen, budgets, lapsed>>
Lose(i) ==
    /\ i \in DOMAIN wire /\ wire' = Without(wire, i) /\ lapsed' = TRUE
    /\ UNCHANGED <<local, stored, serial, synced, visit, seen, server, budgets>>

\* The tab is reloaded: the module starts over and the serials with it.
Reload ==
    /\ reloads < MaxReloads /\ reloads' = reloads + 1
    /\ local' = Loaded /\ unsaved' = FALSE
    /\ serial' = [post |-> 0, comment |-> 0] /\ synced' = FALSE
    /\ visit' = [v \in Visits |-> [at |-> "unmounted"]]
    /\ seen' = Rendered(local')
    /\ UNCHANGED <<storage, wire, server, clicks, lapsed>>

\* The user signs out: what is stored of them is wiped, the store in memory stays.
SignOut ==
    /\ Spend(1) /\ storage' = Nothing /\ unsaved' = TRUE
    /\ UNCHANGED <<local, serial, synced, visit, seen, wire, server, reloads, lapsed>>

Next ==
    \/ Clicking \/ Render \/ Hydration \/ Reload \/ SignOut
    \/ \E i \in 1 .. MaxClicks : Serve(i) \/ Lose(i)
Fairness ==
    /\ \A v \in Visits : WF_vars(AnswerFeed(v) \/ Unreachable(v)) /\ WF_vars(ApplyFeed(v))
                         /\ WF_vars(AnswerComments(v)) /\ WF_vars(Finish(v))
    /\ WF_vars(\E i \in 1 .. MaxClicks : Serve(i) \/ Lose(i))
Spec == Init /\ [][Next]_vars /\ Fairness

-----------------------------------------------------------------------------
TypeOK ==
    /\ DOMAIN local = DOMAIN Seed /\ DOMAIN server = DOMAIN Seed
    /\ \A s \in {local, server, storage} :
         /\ \A i \in DOMAIN s.posts : s.posts[i].flags \subseteq Flags
         /\ s.following \subseteq Traders /\ \A u \in Traders : s.followers[u] >= 0
    /\ unsaved \in BOOLEAN /\ synced \in BOOLEAN /\ lapsed \in BOOLEAN
    /\ clicks \in 0 .. MaxClicks /\ reloads \in 0 .. MaxReloads /\ Len(wire) <= clicks

\* Whatever clicks, hydrations and reloads overlap, a count and the flag beside it
\* stay one: neither side ever counts a like twice or takes one away that was not given.
CountsMatchFlags ==
    /\ \A s \in {local, server} : \A i \in DOMAIN s.posts : \A c \in Counted :
         s.posts[i].count[c] = IF c \in s.posts[i].flags THEN 1 ELSE 0
    /\ \A u \in Traders : server.followers[u] = IF u \in server.following THEN 1 ELSE 0

\* Once the store is synced and no request is under way, the user and the server
\* agree on every post and comment both know, provided no request was lost and
\* none crossed a hydration: toggles are sent as toggles, so one that is lost
\* leaves the two sides opposed for good. An id that the tab counts itself is not
\* enough to know a comment by, see OwnIdsAgree.
Settled == synced /\ wire = <<>> /\ ~lapsed /\ ~Hydrating
MirrorAgrees ==
    Settled =>
      /\ \A i \in DOMAIN local.posts, j \in DOMAIN server.posts :
           LET p == local.posts[i]  q == server.posts[j] IN
           p.id = q.id => /\ p.blocked = q.blocked
                          /\ ~p.blocked => p.flags = q.flags /\ p.count = q.count
      /\ \A i \in DOMAIN local.comments, j \in DOMAIN server.comments :
           local.comments[i].id = server.comments[j].id /\ local.comments[i].id.kind # "own" =>
             local.comments[i] = server.comments[j]

\* A post of the seed or of the server that the user blocked stays blocked for as long
\* as it is listed, through clicks, hydrations and reloads, provided no request was lost
\* and none crossed a hydration, and the storage had it when the tab was reloaded.
BlockIsKept ==
    [][~lapsed' /\ (unsaved => reloads' = reloads) =>
        \A i \in DOMAIN local.posts, j \in DOMAIN local'.posts :
          local.posts[i].blocked /\ local.posts[i].id.kind # "own"
            /\ local'.posts[j].id = local.posts[i].id => local'.posts[j].blocked]_vars

\* Interactions survive a reload: what the user had is loaded again, unless it could not
\* be stored or was wiped, the list of posts was empty (then the seed is back) or a
\* hydration was half done.
ReloadKeeps ==
    [][reloads' # reloads /\ ~unsaved
         /\ (\A v \in Visits : visit[v].at \notin {"comments", "commented"}) =>
        /\ local'.following = local.following /\ local'.comments = local.comments
        /\ local.posts # <<>> => local'.posts = local.posts]_vars

\* Not kept by the code, see the README.
\* Nor is a comment that the tab has numbered ever taken for another one by the server.
OwnIdsAgree ==
    Settled => \A i \in DOMAIN local.comments, j \in DOMAIN server.comments :
        local.comments[i].id = server.comments[j].id => local.comments[i] = server.comments[j]

\* Not kept by the code, see the README.
\* Each post of the store has an id of its own.
IdsAreUnique == \A i, j \in DOMAIN local.posts : local.posts[i].id = local.posts[j].id => i = j

\* Not kept by the code, see the README.
\* What the server knows to be blocked is not offered by the store.
BlockedStaysAway ==
    ~lapsed => \A i \in DOMAIN local.posts, j \in DOMAIN server.posts :
        local.posts[i].id = server.posts[j].id /\ server.posts[j].blocked => local.posts[i].blocked

\* Not kept by the code, see the README.
\* What the comment on mirrorServer says: a mutation is fired only when the server
\* is known to be reachable. The request is an argument, made before the test.
MirroredOnlyWhenSynced == \A i \in DOMAIN wire : wire[i].synced

=============================================================================
