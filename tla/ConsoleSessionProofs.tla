------------------------ MODULE ConsoleSessionProofs ------------------------
(***************************************************************************)
(* Proofs about ConsoleSession for every set of windows, accounts, grants  *)
(* and destinations, and any number of sign-ins and requests.              *)
(***************************************************************************)
EXTENDS ConsoleSession, TLAPS, WellFoundedInduction

-----------------------------------------------------------------------------
\* The routes.

LEMMA NavDomain == DOMAIN NavItems = 1..33
  BY DEF NavItems

\* The sign-in page and the redirected paths are no pages of the menu.
\* (permission-taxonomy.ts:31-111)
LEMMA NavPaths ==
    \A i \in 1..33 : NavItems[i].key \notin {"/login", "/tenant-brand", "/activity-reward-center",
                                            "/withdrawal-requests", "/risk", "/reports", "/rbac"}
  BY SMTT(60) DEF NavItems, Item, ItemFor

LEMMA RedirectTargets ==
    /\ NavItems[8].key = "/tenant-brand/tenants" /\ NavItems[14].key = "/activity-reward-center/rules"
    /\ NavItems[21].key = "/withdrawal-requests/list" /\ NavItems[24].key = "/risk/cases"
    /\ NavItems[26].key = "/reports/agent" /\ NavItems[31].key = "/rbac/users"
  BY SMTT(60) DEF NavItems, Item, ItemFor

LEMMA NavKey == \A i \in 1..33 : NavItems[i] \in NavSet /\ NavItems[i].key \in NavKeys
  BY NavDomain DEF NavSet, NavKeys

LEMMA KeyOfNav ==
    ASSUME NEW path0 \in NavKeys
    PROVE  \E i \in 1..33 : path0 = NavItems[i].key
  BY NavDomain DEF NavSet, NavKeys

\* Every redirect leads to a page.
LEMMA RedirectsLead == \A r \in Redirects : r[2] \in NavKeys
  BY NavKey, RedirectTargets DEF Redirects

LEMMA LoginOutside == "/login" \notin ConsolePaths
  BY KeyOfNav, NavPaths DEF ConsolePaths, Redirects

\* Resolving a path of the console leads to a page, and leaves a page and the
\* sign-in page where they are.  (router.tsx:124-191)
LEMMA ResolveFacts ==
    /\ \A p \in ConsolePaths : Resolve(p) \in NavKeys
    /\ \A p \in NavKeys \cup {"/login"} : Resolve(p) = p
  <1>1. ASSUME NEW p \in ConsolePaths PROVE Resolve(p) \in NavKeys
    <2>1. CASE \E r \in Redirects : r[1] = p
      <3> DEFINE r0 == CHOOSE r \in Redirects : r[1] = p
      <3>1. r0 \in Redirects
        BY <2>1
      <3>2. Resolve(p) = r0[2]
        BY <2>1 DEF Resolve
      <3>3. QED BY <3>1, <3>2, RedirectsLead
    <2>2. CASE ~\E r \in Redirects : r[1] = p
      BY <1>1, <2>2 DEF Resolve, ConsolePaths
    <2>3. QED BY <2>1, <2>2
  <1>2. ASSUME NEW p \in NavKeys \cup {"/login"} PROVE Resolve(p) = p
    <2>1. \A r \in Redirects : r[1] # p
      BY KeyOfNav, NavPaths DEF Redirects
    <2>2. QED BY <2>1 DEF Resolve
  <1>3. QED BY <1>1, <1>2

\* Where Land leaves a window: at the sign-in page without a session, at a
\* page with one.  (router.tsx:43-72)
LEMMA LandFacts ==
    ASSUME NEW t, NEW p \in ConsolePaths \cup {"/login"},
           NEW f \in ConsolePaths \cup {"/login", None}
    PROVE  LET end == Land(t, p, f)
           IN  /\ end.path \in NavKeys \cup {"/login"}
               /\ end.from \in ConsolePaths \cup {"/login", None}
               /\ t = None => end.path = "/login"
               /\ end.path # "/login" => end.path \in ConsolePaths
  <1>1. NavKeys \subseteq ConsolePaths
    BY DEF ConsolePaths
  <1>2. "/" \in NavKeys
    <2>1. NavItems[1].key = "/"
      BY SMTT(60) DEF NavItems, Item
    <2>2. QED BY <2>1, NavKey
  <1>3. CASE p = "/login" /\ t # None
    BY <1>1, <1>2, <1>3, ResolveFacts, SessionConstants DEF Land
  <1>4. CASE ~(p = "/login" /\ t # None) /\ p \in ConsolePaths /\ t = None
    BY <1>1, <1>4 DEF Land
  <1>5. CASE ~(p = "/login" /\ t # None) /\ ~(p \in ConsolePaths /\ t = None)
    BY <1>1, <1>5, ResolveFacts, LoginOutside DEF Land
  <1>6. QED BY <1>3, <1>4, <1>5

-----------------------------------------------------------------------------
\* The open tabs.

Distinct(tabs) == \A i, j \in DOMAIN tabs : tabs[i] = tabs[j] => i = j
Shows(tabs, p) == \E i \in DOMAIN tabs : tabs[i] = p

LEMMA WithTabFacts ==
    ASSUME NEW tabs \in Seq(ConsolePaths), Distinct(tabs), NEW p \in ConsolePaths
    PROVE  /\ WithTab(tabs, p) \in Seq(ConsolePaths)
           /\ Distinct(WithTab(tabs, p)) /\ Shows(WithTab(tabs, p), p)
  <1>1. CASE Shows(tabs, p)
    BY <1>1 DEF WithTab, Shows
  <1>2. CASE ~Shows(tabs, p)
    <2>1. WithTab(tabs, p) = Append(tabs, p)
      BY <1>2 DEF WithTab, Shows
    <2>2. /\ Append(tabs, p) \in Seq(ConsolePaths)
          /\ DOMAIN Append(tabs, p) = 1..Len(tabs) + 1
          /\ Append(tabs, p)[Len(tabs) + 1] = p
          /\ \A i \in 1..Len(tabs) : Append(tabs, p)[i] = tabs[i]
      OBVIOUS
    <2>3. Distinct(Append(tabs, p))
      BY <1>2, <2>2 DEF Distinct, Shows
    <2>4. QED
      BY <2>1, <2>2, <2>3 DEF Shows
  <1>3. QED BY <1>1, <1>2

LEMMA WithoutFacts ==
    ASSUME NEW tabs \in Seq(ConsolePaths), Distinct(tabs), NEW i \in DOMAIN tabs, Len(tabs) > 1
    PROVE  LET next == Without(tabs, i)
           IN  next \in Seq(ConsolePaths) /\ Distinct(next) /\ next[Len(next)] \in ConsolePaths
  <1> DEFINE next == Without(tabs, i)
  <1>1. i \in 1..Len(tabs) /\ Len(tabs) \in Nat
    OBVIOUS
  <1> DEFINE left == SubSeq(tabs, 1, i - 1)
             right == SubSeq(tabs, i + 1, Len(tabs))
  <1>2. /\ left \in Seq(ConsolePaths) /\ Len(left) = i - 1
        /\ \A k \in 1..i - 1 : left[k] = tabs[k]
    BY <1>1
  <1>3. /\ right \in Seq(ConsolePaths) /\ Len(right) = Len(tabs) - i
        /\ \A k \in 1..Len(tabs) - i : right[k] = tabs[k + i]
    BY <1>1
  <1>4. next = left \o right
    BY DEF Without
  <1> HIDE DEF left, right, next
  <1>5. /\ next \in Seq(ConsolePaths) /\ Len(next) = Len(tabs) - 1
        /\ \A k \in 1..Len(next) : next[k] = IF k <= Len(left) THEN left[k] ELSE right[k - Len(left)]
    BY <1>1, <1>2, <1>3, <1>4
  <1> DEFINE old(k) == IF k < i THEN k ELSE k + 1
  <1>6. ASSUME NEW k \in 1..Len(tabs) - 1
        PROVE  next[k] = tabs[old(k)] /\ old(k) \in DOMAIN tabs
    <2>0. k \in 1..Len(next) /\ k \in Nat /\ DOMAIN tabs = 1..Len(tabs)
      BY <1>5
    <2>1. CASE k < i
      BY <1>1, <1>2, <1>5, <2>0, <2>1
    <2>2. CASE ~(k < i)
      <3>1. k - Len(left) \in 1..Len(tabs) - i /\ ~(k <= Len(left))
        BY <1>1, <1>2, <2>0, <2>2
      <3>2. next[k] = right[k - Len(left)]
        BY <1>5, <2>0, <3>1
      <3>3. right[k - Len(left)] = tabs[k - Len(left) + i]
        BY <1>3, <3>1
      <3>4. k - Len(left) + i = k + 1
        BY <1>1, <1>2, <2>0
      <3>5. QED
        BY <1>1, <2>0, <2>2, <3>2, <3>3, <3>4
    <2>3. QED BY <2>1, <2>2
  <1>7. Distinct(next)
    <2>1. SUFFICES ASSUME NEW k \in 1..Len(tabs) - 1, NEW m \in 1..Len(tabs) - 1, next[k] = next[m]
                   PROVE  k = m
      BY <1>5 DEF Distinct
    <2>2. old(k) = old(m)
      BY <1>6, <2>1 DEF Distinct
    <2>3. QED
      BY <1>1, <2>2
  <1>8. Len(next) \in DOMAIN next
    BY <1>5
  <1>9. QED
    BY <1>5, <1>7, <1>8 DEF next

LEMMA RestFacts ==
    ASSUME NEW w \in Windows, NEW t, NEW p \in ConsolePaths \cup {"/login"},
           NEW f \in ConsolePaths \cup {"/login", None},
           NEW tabs \in Seq(ConsolePaths), Distinct(tabs),
           path \in [Windows -> ConsolePaths \cup {"/login"}],
           from \in [Windows -> ConsolePaths \cup {"/login", None}],
           openTabs \in [Windows -> Seq(ConsolePaths)],
           Rest(w, t, p, f, tabs)
    PROVE  /\ path' \in [Windows -> ConsolePaths \cup {"/login"}]
           /\ from' \in [Windows -> ConsolePaths \cup {"/login", None}]
           /\ openTabs' \in [Windows -> Seq(ConsolePaths)]
           /\ \A v \in Windows \ {w} : path'[v] = path[v] /\ openTabs'[v] = openTabs[v]
           /\ t = None => openTabs'[w] = <<>>
           /\ path'[w] \in ConsolePaths => Shows(openTabs'[w], path'[w])
           /\ Distinct(openTabs'[w])
  <1> DEFINE end == Land(t, p, f)
             rest == IF end.path = "/login" THEN <<>> ELSE WithTab(tabs, end.path)
  <1>1. /\ end.path \in ConsolePaths \cup {"/login"} /\ end.from \in ConsolePaths \cup {"/login", None}
        /\ t = None => end.path = "/login"
        /\ end.path # "/login" => end.path \in ConsolePaths
    BY LandFacts DEF ConsolePaths
  <1>2. <<>> \in Seq(ConsolePaths) /\ Distinct(<<>>)
    BY DEF Distinct
  <1>3. /\ rest \in Seq(ConsolePaths) /\ Distinct(rest)
        /\ end.path \in ConsolePaths => Shows(rest, end.path)
    BY <1>1, <1>2, WithTabFacts, LoginOutside
  <1>4. /\ path' = [path EXCEPT ![w] = end.path] /\ from' = [from EXCEPT ![w] = end.from]
        /\ openTabs' = [openTabs EXCEPT ![w] = rest]
    BY DEF Rest
  <1> HIDE DEF end, rest
  <1>5. path'[w] = end.path /\ openTabs'[w] = rest
    BY <1>4
  <1>6. t = None => rest = <<>>
    BY <1>1 DEF rest
  <1>7. QED
    BY <1>1, <1>3, <1>4, <1>5, <1>6

-----------------------------------------------------------------------------
\* ShownIsOwner is not inductive alone: what /auth/me answers is installed
\* beside the token the window took when it asked, so a window that is not
\* ready must still hold the token it asked about.
LoadsPending ==
    \A w \in Windows : IF isReady[w] THEN me[w] = None ELSE me[w] # None /\ me[w] = token[w]

\* Nor is RequestsAsShown: a refused sign-in empties the storage, which no
\* session of the same window may meet, and a window not yet ready counts too.
SigningOut == \A w \in Windows : signing[w] # None => isReady[w] /\ token[w] = None

SentAsShown ==
    \A w \in Windows :
      token[w] # None /\ ~foreign[w] => storedToken = token[w] \/ (storedToken = None /\ refused[w])

IInv == /\ SessionTypeOK /\ LoadsPending /\ ShownIsOwner /\ SigningOut /\ SentAsShown
        /\ WorkspaceOfSession

\* What a window provides itself, the others do not see.
LEMMA ProvideFacts ==
    ASSUME SessionTypeOK, NEW w \in Windows, NEW t \in Tokens \cup {None},
           NEW u \in Profiles \cup {None}, NEW ready \in BOOLEAN, NEW asked \in Tokens \cup {None},
           Provide(w, t, u, ready, asked)
    PROVE  /\ token' \in [Windows -> Tokens \cup {None}] /\ user' \in [Windows -> Profiles \cup {None}]
           /\ isReady' \in [Windows -> BOOLEAN] /\ me' \in [Windows -> Tokens \cup {None}]
           /\ token'[w] = t /\ user'[w] = u /\ isReady'[w] = ready /\ me'[w] = asked
           /\ \A v \in Windows \ {w} : /\ token'[v] = token[v] /\ user'[v] = user[v]
                                       /\ isReady'[v] = isReady[v] /\ me'[v] = me[v]
  BY DEF Provide, SessionTypeOK

\* Taking a session makes its token the stored one; a window in another
\* session notices.  (auth/index.tsx:20-41, api.ts:978-1024)
LEMMA AdoptFacts ==
    ASSUME SessionTypeOK, SentAsShown, NEW w \in Windows, NEW t \in Tokens \cup {None},
           NEW u \in Profiles \cup {None}, Adopt(w, t, u),
           token'[w] = t, \A v \in Windows \ {w} : token'[v] = token[v]
    PROVE  /\ storedToken' \in Tokens \cup {None} /\ storedUser' \in Profiles \cup {None}
           /\ foreign' \in [Windows -> BOOLEAN] /\ refused' \in [Windows -> BOOLEAN]
           /\ SentAsShown'
  <1>1. /\ storedToken' = t /\ storedUser' = u
        /\ foreign' = [v \in Windows |-> v # w /\ Overwritten(v, t)]
        /\ refused' = [refused EXCEPT ![w] = FALSE]
    BY DEF Adopt
  <1>2. /\ foreign' \in [Windows -> BOOLEAN] /\ refused' \in [Windows -> BOOLEAN]
    BY <1>1 DEF SessionTypeOK, Overwritten
  <1>3. ASSUME NEW v \in Windows, token'[v] # None, ~foreign'[v]
        PROVE  storedToken' = token'[v] \/ (storedToken' = None /\ refused'[v])
    <2>1. CASE v = w
      BY <1>1, <2>1
    <2>2. CASE v # w
      <3>1. ~Overwritten(v, t)
        BY <1>1, <1>3, <2>2
      <3>2. token[v] # None /\ ~foreign[v] /\ t = storedToken
        BY <1>3, <2>2, <3>1 DEF Overwritten
      <3>3. refused'[v] = refused[v]
        BY <1>1, <2>2 DEF SessionTypeOK
      <3>4. QED
        BY <1>1, <2>2, <3>2, <3>3 DEF SentAsShown
    <2>3. QED BY <2>1, <2>2
  <1>4. QED
    BY <1>1, <1>2, <1>3 DEF SentAsShown

\* A window of token t that comes to rest keeps the workspaces in order.
LEMMA RestKeeps ==
    ASSUME SessionTypeOK, WorkspaceOfSession, NEW w \in Windows, NEW t,
           NEW p \in ConsolePaths \cup {"/login"}, NEW f \in ConsolePaths \cup {"/login", None},
           NEW tabs \in Seq(ConsolePaths), Distinct(tabs), Rest(w, t, p, f, tabs),
           token'[w] = t,
           \A v \in Windows \ {w} : token'[v] = token[v] /\ isReady'[v] = isReady[v]
    PROVE  /\ path' \in [Windows -> ConsolePaths \cup {"/login"}]
           /\ from' \in [Windows -> ConsolePaths \cup {"/login", None}]
           /\ openTabs' \in [Windows -> Seq(ConsolePaths)]
           /\ WorkspaceOfSession'
  <1>1. /\ path' \in [Windows -> ConsolePaths \cup {"/login"}]
        /\ from' \in [Windows -> ConsolePaths \cup {"/login", None}]
        /\ openTabs' \in [Windows -> Seq(ConsolePaths)]
        /\ \A v \in Windows \ {w} : path'[v] = path[v] /\ openTabs'[v] = openTabs[v]
        /\ t = None => openTabs'[w] = <<>>
        /\ path'[w] \in ConsolePaths => Shows(openTabs'[w], path'[w])
        /\ Distinct(openTabs'[w])
    BY RestFacts DEF SessionTypeOK
  <1>2. ASSUME NEW v \in Windows
        PROVE  /\ token'[v] = None => openTabs'[v] = <<>>
               /\ InConsole(v)' => Shows(openTabs'[v], path'[v])
               /\ Distinct(openTabs'[v])
    <2>1. CASE v = w
      BY <1>1, <2>1 DEF InConsole
    <2>2. CASE v # w
      <3>1. /\ token[v] = None => openTabs[v] = <<>>
            /\ InConsole(v) => Shows(openTabs[v], path[v])
            /\ Distinct(openTabs[v])
        BY DEF WorkspaceOfSession, Shows, Distinct
      <3>2. /\ token'[v] = token[v] /\ isReady'[v] = isReady[v] /\ path'[v] = path[v]
            /\ openTabs'[v] = openTabs[v]
        BY <1>1, <2>2
      <3>3. InConsole(v)' => InConsole(v)
        BY <3>2 DEF InConsole
      <3>4. QED
        BY <3>1, <3>2, <3>3
    <2>3. QED BY <2>1, <2>2
  <1>3. WorkspaceOfSession'
    BY <1>2 DEF WorkspaceOfSession, Shows, Distinct
  <1>4. QED BY <1>1, <1>3

-----------------------------------------------------------------------------
\* The landing page of a sign-in: a page, and one of the menu whose permission
\* the account has if there is any.  (permission-taxonomy.ts:113-120)
LEMMA LandingFacts ==
    ASSUME NEW permissions
    PROVE  /\ FirstAccessibleNavPath(permissions) \in NavKeys
           /\ \/ \E item \in NavSet : /\ item.key = FirstAccessibleNavPath(permissions)
                                       /\ item.permission \in permissions
              \/ \A item \in NavSet : item.permission \notin permissions
  <1> DEFINE open == {i \in DOMAIN NavItems : NavItems[i].permission \in permissions}
  <1>1. CASE open = {}
    <2>1. FirstAccessibleNavPath(permissions) = "/"
      BY <1>1 DEF FirstAccessibleNavPath
    <2>2. NavItems[1].key = "/"
      BY SMTT(60) DEF NavItems, Item
    <2>3. \A item \in NavSet : item.permission \notin permissions
      BY <1>1 DEF NavSet
    <2>4. QED BY <2>1, <2>2, <2>3, NavKey
  <1>2. CASE open # {}
    <2>1. open \subseteq Nat
      BY NavDomain
    <2>2. \E i \in open : \A j \in open : i <= j
      <3> HIDE DEF open
      <3>1. \E i \in open : \A j \in open : ~(<<j, i>> \in OpToRel(<, Nat))
        BY <1>2, <2>1, WFMin, NatLessThanWellFounded
      <3>2. PICK i \in open : \A j \in open : ~(<<j, i>> \in OpToRel(<, Nat))
        BY <3>1
      <3>3. ASSUME NEW j \in open PROVE i <= j
        <4>1. i \in Nat /\ j \in Nat /\ <<j, i>> \in Nat \X Nat
          BY <2>1
        <4>2. ~(j < i)
          BY <3>2, <4>1 DEF OpToRel
        <4>3. QED BY <4>1, <4>2
      <3>4. QED BY <3>3
    <2>3. Lowest(open) \in open
      BY <2>2 DEF Lowest
    <2>4. FirstAccessibleNavPath(permissions) = NavItems[Lowest(open)].key
      BY <1>2 DEF FirstAccessibleNavPath
    <2>5. Lowest(open) \in 1..33 /\ NavItems[Lowest(open)].permission \in permissions
      BY <2>3, NavDomain
    <2>6. QED BY <2>4, <2>5, NavKey
  <1>3. QED BY <1>1, <1>2

LEMMA TokenFacts ==
    ASSUME NEW t \in Tokens
    PROVE  t # None /\ t.account \in Accounts /\ Profile(t.account) \in Profiles
  BY SessionConstants DEF Tokens, Profiles

LEMMA InitIInv == Init => IInv
  <1> SUFFICES ASSUME Init PROVE IInv
    OBVIOUS
  <1>1. "/" \in ConsolePaths
    <2>1. NavItems[1].key = "/"
      BY SMTT(60) DEF NavItems, Item
    <2>2. QED BY <2>1, NavKey DEF ConsolePaths
  <1>2. SessionTypeOK
    BY <1>1, SessionConstants DEF Init, SessionTypeOK
  <1>3. LoadsPending /\ ShownIsOwner /\ SigningOut /\ SentAsShown
    BY DEF Init, LoadsPending, ShownIsOwner, SigningOut, SentAsShown
  <1>4. WorkspaceOfSession
    BY LoginOutside DEF Init, WorkspaceOfSession, InConsole
  <1>5. QED BY <1>2, <1>3, <1>4 DEF IInv

\* The four parts about the sessions, for an action of one window that changes
\* its session: given for that window, they hold for all.
LEMMA SessionKeeps ==
    ASSUME LoadsPending, ShownIsOwner, SigningOut, NEW w \in Windows,
           \A v \in Windows \ {w} : /\ token'[v] = token[v] /\ user'[v] = user[v]
                                   /\ isReady'[v] = isReady[v] /\ me'[v] = me[v]
                                   /\ signing'[v] = signing[v],
           IF isReady'[w] THEN me'[w] = None ELSE me'[w] # None /\ me'[w] = token'[w],
           isReady'[w] /\ token'[w] # None => user'[w] = Profile(token'[w].account),
           signing'[w] # None => isReady'[w] /\ token'[w] = None
    PROVE  LoadsPending' /\ ShownIsOwner' /\ SigningOut'
  <1>1. LoadsPending'
    BY DEF LoadsPending
  <1>2. ShownIsOwner'
    BY DEF ShownIsOwner, Profile
  <1>3. SigningOut'
    BY DEF SigningOut
  <1>4. QED BY <1>1, <1>2, <1>3

-----------------------------------------------------------------------------
\* Steps.

\* A step that only moves in the console: links, tabs, the dead-end logout.
LEMMA MoveIInv ==
    ASSUME IInv, NEW w \in Windows, Stay(w), NEW p \in ConsolePaths \cup {"/login"},
           NEW tabs \in Seq(ConsolePaths), Distinct(tabs), Rest(w, token[w], p, None, tabs)
    PROVE  IInv'
  <1> USE DEF IInv
  <1>1. UNCHANGED <<storage, server, provider, signing, calls, foreign, refused>>
    BY DEF Stay
  <1>2. /\ path' \in [Windows -> ConsolePaths \cup {"/login"}]
        /\ from' \in [Windows -> ConsolePaths \cup {"/login", None}]
        /\ openTabs' \in [Windows -> Seq(ConsolePaths)]
        /\ WorkspaceOfSession'
    BY <1>1, RestKeeps DEF provider
  <1>3. SessionTypeOK'
    BY <1>1, <1>2 DEF SessionTypeOK, storage, server, provider
  <1>4. LoadsPending' /\ ShownIsOwner' /\ SigningOut' /\ SentAsShown'
    BY <1>1 DEF LoadsPending, ShownIsOwner, SigningOut, SentAsShown, storage, provider, Profile
  <1>5. QED BY <1>2, <1>3, <1>4

LEMMA LoadIInv ==
    ASSUME IInv, NEW w \in Windows, NEW p \in Destinations \cup {path[w]}, Load(w, p)
    PROVE  IInv'
  <1> USE DEF IInv
  <1> DEFINE f == IF p = path[w] THEN from[w] ELSE None
  <1>1. /\ Provide(w, storedToken, storedUser, storedToken = None, storedToken)
        /\ Adopt(w, storedToken, storedUser)
        /\ IF storedToken = None THEN Rest(w, None, p, f, <<>>)
           ELSE /\ path' = [path EXCEPT ![w] = p] /\ from' = [from EXCEPT ![w] = f]
                /\ openTabs' = [openTabs EXCEPT ![w] = <<>>]
        /\ signing' = [signing EXCEPT ![w] = None] /\ calls' = [calls EXCEPT ![w] = {}]
        /\ UNCHANGED server
    BY DEF Load
  <1>2. p \in ConsolePaths \cup {"/login"} /\ f \in ConsolePaths \cup {"/login", None}
    BY SessionConstants DEF SessionTypeOK
  <1>3. storedToken \in Tokens \cup {None} /\ storedUser \in Profiles \cup {None}
    BY DEF SessionTypeOK
  <1>4. /\ token' \in [Windows -> Tokens \cup {None}] /\ user' \in [Windows -> Profiles \cup {None}]
        /\ isReady' \in [Windows -> BOOLEAN] /\ me' \in [Windows -> Tokens \cup {None}]
        /\ token'[w] = storedToken /\ user'[w] = storedUser
        /\ isReady'[w] = (storedToken = None) /\ me'[w] = storedToken
        /\ \A v \in Windows \ {w} : /\ token'[v] = token[v] /\ user'[v] = user[v]
                                    /\ isReady'[v] = isReady[v] /\ me'[v] = me[v]
    <2> DEFINE ready == storedToken = None
    <2>1. ready \in BOOLEAN /\ Provide(w, storedToken, storedUser, ready, storedToken)
      BY <1>1
    <2> HIDE DEF ready
    <2>2. QED
      BY <1>3, <2>1, ProvideFacts DEF ready
  <1>5. /\ storedToken' \in Tokens \cup {None} /\ storedUser' \in Profiles \cup {None}
        /\ foreign' \in [Windows -> BOOLEAN] /\ refused' \in [Windows -> BOOLEAN]
        /\ SentAsShown'
    BY <1>1, <1>3, <1>4, AdoptFacts
  <1> HIDE DEF f
  <1>6. /\ path' \in [Windows -> ConsolePaths \cup {"/login"}]
        /\ from' \in [Windows -> ConsolePaths \cup {"/login", None}]
        /\ openTabs' \in [Windows -> Seq(ConsolePaths)]
        /\ WorkspaceOfSession'
    <2>0. <<>> \in Seq(ConsolePaths) /\ Distinct(<<>>)
      BY DEF Distinct
    <2>1. CASE storedToken = None
      BY <1>1, <1>2, <1>4, <2>0, <2>1, RestKeeps
    <2>2. CASE storedToken # None
      <3>1. /\ path' = [path EXCEPT ![w] = p] /\ from' = [from EXCEPT ![w] = f]
            /\ openTabs' = [openTabs EXCEPT ![w] = <<>>]
        BY <1>1, <2>2
      <3>2. WorkspaceOfSession'
        BY <1>4, <2>2, <3>1 DEF WorkspaceOfSession, InConsole, SessionTypeOK
      <3>3. QED BY <1>2, <2>0, <3>1, <3>2 DEF SessionTypeOK
    <2>3. QED BY <2>1, <2>2
  <1>7. SessionTypeOK'
    BY <1>1, <1>4, <1>5, <1>6 DEF SessionTypeOK, server
  <1>8. LoadsPending' /\ ShownIsOwner' /\ SigningOut'
    <2>1. signing'[w] = None /\ \A v \in Windows \ {w} : signing'[v] = signing[v]
      BY <1>1 DEF SessionTypeOK
    <2>2. IF isReady'[w] THEN me'[w] = None ELSE me'[w] # None /\ me'[w] = token'[w]
      BY <1>4
    <2>3. ~(isReady'[w] /\ token'[w] # None)
      BY <1>4
    <2>4. QED BY <1>4, <2>1, <2>2, <2>3, SessionKeeps
  <1>9. QED BY <1>5, <1>6, <1>7, <1>8

\* Signing out and failing to load: the window provides nobody.
LEMMA DropIInv ==
    ASSUME IInv, NEW w \in Windows, NEW p \in ConsolePaths \cup {"/login"},
           NEW f \in ConsolePaths \cup {"/login", None},
           Provide(w, None, None, TRUE, None), Adopt(w, None, None), Rest(w, None, p, f, <<>>),
           UNCHANGED <<server, signing, calls>>
    PROVE  IInv'
  <1> USE DEF IInv
  <1>1. /\ token' \in [Windows -> Tokens \cup {None}] /\ user' \in [Windows -> Profiles \cup {None}]
        /\ isReady' \in [Windows -> BOOLEAN] /\ me' \in [Windows -> Tokens \cup {None}]
        /\ token'[w] = None /\ user'[w] = None /\ isReady'[w] = TRUE /\ me'[w] = None
        /\ \A v \in Windows \ {w} : /\ token'[v] = token[v] /\ user'[v] = user[v]
                                    /\ isReady'[v] = isReady[v] /\ me'[v] = me[v]
    BY ProvideFacts
  <1>2. /\ storedToken' \in Tokens \cup {None} /\ storedUser' \in Profiles \cup {None}
        /\ foreign' \in [Windows -> BOOLEAN] /\ refused' \in [Windows -> BOOLEAN]
        /\ SentAsShown'
    BY <1>1, AdoptFacts
  <1>3. <<>> \in Seq(ConsolePaths) /\ Distinct(<<>>)
    BY DEF Distinct
  <1>4. /\ path' \in [Windows -> ConsolePaths \cup {"/login"}]
        /\ from' \in [Windows -> ConsolePaths \cup {"/login", None}]
        /\ openTabs' \in [Windows -> Seq(ConsolePaths)]
        /\ WorkspaceOfSession'
    BY <1>1, <1>3, RestKeeps
  <1>5. SessionTypeOK'
    BY <1>1, <1>2, <1>4 DEF SessionTypeOK, server
  <1>6. LoadsPending' /\ ShownIsOwner' /\ SigningOut'
    BY <1>1, SessionKeeps
  <1>7. QED BY <1>2, <1>4, <1>5, <1>6

\* What a window stores without taking a session (SetStored) leaves the other
\* windows' requests as they are shown.
LEMMA StoredFacts ==
    ASSUME SessionTypeOK, SentAsShown, NEW w \in Windows, NEW t \in {None, storedToken},
           NEW u \in Profiles \cup {None}, SetStored(w, t, u), UNCHANGED token,
           \A v \in Windows \ {w} : refused'[v] = refused[v]
    PROVE  /\ storedToken' \in Tokens \cup {None} /\ storedUser' \in Profiles \cup {None}
           /\ foreign' \in [Windows -> BOOLEAN] /\ foreign'[w] = foreign[w] /\ storedToken' = t
           /\ \A v \in Windows \ {w} :
                token'[v] # None /\ ~foreign'[v]
                  => storedToken' = token'[v] \/ (storedToken' = None /\ refused'[v])
  <1>1. /\ storedToken' = t /\ storedUser' = u
        /\ foreign' = [v \in Windows |-> IF v = w THEN foreign[w] ELSE Overwritten(v, t)]
    BY DEF SetStored
  <1>2. foreign' \in [Windows -> BOOLEAN]
    BY <1>1 DEF SessionTypeOK, Overwritten
  <1>3. ASSUME NEW v \in Windows \ {w}, token'[v] # None, ~foreign'[v]
        PROVE  storedToken' = token'[v] \/ (storedToken' = None /\ refused'[v])
    BY <1>1, <1>3 DEF Overwritten, SentAsShown
  <1>4. QED BY <1>1, <1>2, <1>3 DEF SessionTypeOK

LEMMA MeAnsweredIInv == ASSUME IInv, NEW w \in Windows, MeAnswered(w) PROVE IInv'
  <1> USE DEF IInv
  <1> DEFINE u == Profile(me[w].account)
  <1>1. /\ me[w] # None /\ Provide(w, token[w], u, TRUE, None) /\ SetStored(w, storedToken, u)
        /\ Rest(w, token[w], path[w], from[w], <<>>)
        /\ UNCHANGED <<server, signing, calls, refused>>
    BY DEF MeAnswered
  <1>2. me[w] \in Tokens /\ u \in Profiles
    BY <1>1, TokenFacts DEF SessionTypeOK
  <1>3. me[w] = token[w] /\ ~isReady[w] /\ signing[w] = None
    BY <1>1 DEF LoadsPending, SigningOut
  <1>4. /\ token' \in [Windows -> Tokens \cup {None}] /\ user' \in [Windows -> Profiles \cup {None}]
        /\ isReady' \in [Windows -> BOOLEAN] /\ me' \in [Windows -> Tokens \cup {None}]
        /\ token'[w] = token[w] /\ user'[w] = u /\ isReady'[w] = TRUE /\ me'[w] = None
        /\ \A v \in Windows \ {w} : /\ token'[v] = token[v] /\ user'[v] = user[v]
                                    /\ isReady'[v] = isReady[v] /\ me'[v] = me[v]
    <2>1. token[w] \in Tokens \cup {None}
      BY DEF SessionTypeOK
    <2> HIDE DEF u
    <2>2. QED BY <1>1, <1>2, <2>1, ProvideFacts
  <1>5. token' = token
    BY <1>4 DEF SessionTypeOK
  <1>6. /\ storedToken' \in Tokens \cup {None} /\ storedUser' \in Profiles \cup {None}
        /\ foreign' \in [Windows -> BOOLEAN] /\ foreign'[w] = foreign[w] /\ storedToken' = storedToken
        /\ \A v \in Windows \ {w} :
             token'[v] # None /\ ~foreign'[v]
               => storedToken' = token'[v] \/ (storedToken' = None /\ refused'[v])
    <2> HIDE DEF u
    <2>1. QED BY <1>1, <1>2, <1>5, StoredFacts
  <1>7. SentAsShown'
    BY <1>1, <1>5, <1>6 DEF SentAsShown
  <1>8. <<>> \in Seq(ConsolePaths) /\ Distinct(<<>>)
    BY DEF Distinct
  <1>9. /\ path' \in [Windows -> ConsolePaths \cup {"/login"}]
        /\ from' \in [Windows -> ConsolePaths \cup {"/login", None}]
        /\ openTabs' \in [Windows -> Seq(ConsolePaths)]
        /\ WorkspaceOfSession'
    <2>1. path[w] \in ConsolePaths \cup {"/login"} /\ from[w] \in ConsolePaths \cup {"/login", None}
      BY DEF SessionTypeOK
    <2>2. QED BY <1>1, <1>4, <1>8, <2>1, RestKeeps
  <1>10. SessionTypeOK'
    BY <1>1, <1>4, <1>6, <1>9 DEF SessionTypeOK, server
  <1>11. LoadsPending' /\ ShownIsOwner' /\ SigningOut'
    BY <1>1, <1>3, <1>4, SessionKeeps
  <1>12. QED BY <1>7, <1>9, <1>10, <1>11

LEMMA LoginAcceptedIInv == ASSUME IInv, NEW w \in Windows, LoginAccepted(w) PROVE IInv'
  <1> USE DEF IInv
  <1> DEFINE t == [account |-> signing[w], n |-> signIns + 1]
             u == Profile(signing[w])
             p == IF from[w] \in {None, "/"} THEN FirstAccessibleNavPath(u.permissions) ELSE from[w]
  <1>1. /\ signing[w] # None /\ signIns < MaxSignIns
        /\ Provide(w, t, u, TRUE, None) /\ Adopt(w, t, u) /\ Rest(w, t, p, None, <<>>)
        /\ signIns' = signIns + 1 /\ signing' = [signing EXCEPT ![w] = None]
        /\ UNCHANGED <<revoked, calls>>
    BY DEF LoginAccepted
  <1>2. t \in Tokens /\ u \in Profiles /\ signIns' \in 0..MaxSignIns /\ u = Profile(t.account)
    BY <1>1, SessionConstants DEF SessionTypeOK, Tokens, Profiles
  <1>3. p \in ConsolePaths \cup {"/login"}
    BY LandingFacts DEF SessionTypeOK, ConsolePaths
  <1> HIDE DEF t, u, p
  <1>4. /\ token' \in [Windows -> Tokens \cup {None}] /\ user' \in [Windows -> Profiles \cup {None}]
        /\ isReady' \in [Windows -> BOOLEAN] /\ me' \in [Windows -> Tokens \cup {None}]
        /\ token'[w] = t /\ user'[w] = u /\ isReady'[w] = TRUE /\ me'[w] = None
        /\ \A v \in Windows \ {w} : /\ token'[v] = token[v] /\ user'[v] = user[v]
                                    /\ isReady'[v] = isReady[v] /\ me'[v] = me[v]
    <2>1. /\ SessionTypeOK /\ Provide(w, t, u, TRUE, None)
          /\ t \in Tokens \cup {None} /\ u \in Profiles \cup {None}
          /\ TRUE \in BOOLEAN /\ None \in Tokens \cup {None}
      BY <1>1, <1>2
    <2>2. QED BY ONLY <2>1, ProvideFacts
  <1>5. /\ storedToken' \in Tokens \cup {None} /\ storedUser' \in Profiles \cup {None}
        /\ foreign' \in [Windows -> BOOLEAN] /\ refused' \in [Windows -> BOOLEAN]
        /\ SentAsShown'
    BY <1>1, <1>2, <1>4, AdoptFacts
  <1>6. <<>> \in Seq(ConsolePaths) /\ Distinct(<<>>)
    BY DEF Distinct
  <1>7. /\ path' \in [Windows -> ConsolePaths \cup {"/login"}]
        /\ from' \in [Windows -> ConsolePaths \cup {"/login", None}]
        /\ openTabs' \in [Windows -> Seq(ConsolePaths)]
        /\ WorkspaceOfSession'
    BY <1>1, <1>3, <1>4, <1>6, RestKeeps
  <1>8. SessionTypeOK'
    BY <1>1, <1>2, <1>4, <1>5, <1>7 DEF SessionTypeOK
  <1>9. LoadsPending' /\ ShownIsOwner' /\ SigningOut'
    <2>1. signing'[w] = None /\ \A v \in Windows \ {w} : signing'[v] = signing[v]
      BY <1>1 DEF SessionTypeOK
    <2>2. user'[w] = Profile(token'[w].account)
      BY <1>2, <1>4
    <2>3. QED BY <1>4, <2>1, <2>2, SessionKeeps
  <1>10. QED BY <1>5, <1>7, <1>8, <1>9

LEMMA LoginRefusedIInv == ASSUME IInv, NEW w \in Windows, LoginRefused(w) PROVE IInv'
  <1> USE DEF IInv
  <1>1. /\ signing[w] # None /\ signing' = [signing EXCEPT ![w] = None]
        /\ UNCHANGED <<server, provider, place, calls, refused>>
    BY DEF LoginRefused
  <1>2. PICK t \in {None, storedToken} : SetStored(w, t, storedUser)
    BY DEF LoginRefused
  <1>3. token[w] = None /\ isReady[w]
    BY <1>1 DEF SigningOut
  <1>4. /\ storedToken' \in Tokens \cup {None} /\ storedUser' \in Profiles \cup {None}
        /\ foreign' \in [Windows -> BOOLEAN] /\ foreign'[w] = foreign[w] /\ storedToken' = t
        /\ \A v \in Windows \ {w} :
             token'[v] # None /\ ~foreign'[v]
               => storedToken' = token'[v] \/ (storedToken' = None /\ refused'[v])
    <2>1. storedUser \in Profiles \cup {None}
      BY DEF SessionTypeOK
    <2>2. UNCHANGED token /\ \A v \in Windows \ {w} : refused'[v] = refused[v]
      BY <1>1 DEF provider
    <2>3. QED BY <1>2, <2>1, <2>2, StoredFacts
  <1>5. SentAsShown'
    BY <1>1, <1>3, <1>4 DEF SentAsShown, provider
  <1>6. SessionTypeOK'
    BY <1>1, <1>4 DEF SessionTypeOK, server, provider, place
  <1>7. LoadsPending' /\ ShownIsOwner'
    BY <1>1 DEF LoadsPending, ShownIsOwner, provider, Profile
  <1>8. SigningOut'
    BY <1>1 DEF SigningOut, SessionTypeOK, provider
  <1>9. WorkspaceOfSession'
    BY <1>1 DEF WorkspaceOfSession, InConsole, provider, place
  <1>10. QED BY <1>5, <1>6, <1>7, <1>8, <1>9

LEMMA AnsweredIInv ==
    ASSUME IInv, NEW w \in Windows, NEW c \in calls[w], Answered(w, c) PROVE IInv'
  <1> USE DEF IInv
  <1> DEFINE denied == c = None \/ c \in revoked
             t == IF denied THEN None ELSE storedToken
  <1>1. /\ calls' = [calls EXCEPT ![w] = @ \ {c}]
        /\ SetStored(w, t, storedUser)
        /\ refused' = [refused EXCEPT ![w] = token[w] # None /\ (@ \/ denied)]
        /\ UNCHANGED <<server, provider, signing, place>>
    BY DEF Answered
  <1>2. /\ storedToken' \in Tokens \cup {None} /\ storedUser' \in Profiles \cup {None}
        /\ foreign' \in [Windows -> BOOLEAN] /\ foreign'[w] = foreign[w] /\ storedToken' = t
        /\ \A v \in Windows \ {w} :
             token'[v] # None /\ ~foreign'[v]
               => storedToken' = token'[v] \/ (storedToken' = None /\ refused'[v])
    <2>1. storedUser \in Profiles \cup {None} /\ t \in {None, storedToken}
      BY DEF SessionTypeOK
    <2>2. UNCHANGED token /\ \A v \in Windows \ {w} : refused'[v] = refused[v]
      BY <1>1 DEF provider, SessionTypeOK
    <2> HIDE DEF t
    <2>3. QED BY <1>1, <2>1, <2>2, StoredFacts
  <1>3. /\ refused' \in [Windows -> BOOLEAN]
        /\ refused'[w] <=> token[w] # None /\ (refused[w] \/ denied)
    BY <1>1 DEF SessionTypeOK
  <1>4. ASSUME token'[w] # None, ~foreign'[w]
        PROVE  storedToken' = token'[w] \/ (storedToken' = None /\ refused'[w])
    <2>1. token'[w] = token[w]
      BY <1>1 DEF provider
    <2>2. CASE denied
      BY <1>2, <1>3, <1>4, <2>1, <2>2
    <2>3. CASE ~denied
      BY <1>2, <1>3, <1>4, <2>1, <2>3 DEF SentAsShown
    <2>4. QED BY <2>2, <2>3
  <1>5. SentAsShown'
    BY <1>2, <1>4 DEF SentAsShown
  <1>6. SessionTypeOK'
    BY <1>1, <1>2, <1>3 DEF SessionTypeOK, server, provider, place
  <1>7. LoadsPending' /\ ShownIsOwner' /\ SigningOut'
    BY <1>1 DEF LoadsPending, ShownIsOwner, SigningOut, provider, Profile
  <1>8. WorkspaceOfSession'
    BY <1>1 DEF WorkspaceOfSession, InConsole, provider, place
  <1>9. QED BY <1>5, <1>6, <1>7, <1>8

\* Steps that leave the sessions and the places as they are.
LEMMA AsideIInv ==
    ASSUME IInv, UNCHANGED <<storage, provider, place, foreign, refused>>,
           revoked' \subseteq Tokens, signIns' = signIns,
           signing' \in [Windows -> Accounts \cup {None}], SigningOut',
           calls' \in [Windows -> SUBSET (Tokens \cup {None})]
    PROVE  IInv'
  <1> USE DEF IInv
  <1>1. SessionTypeOK'
    BY DEF SessionTypeOK, storage, provider, place
  <1>2. LoadsPending' /\ ShownIsOwner' /\ SentAsShown'
    BY DEF LoadsPending, ShownIsOwner, SentAsShown, storage, provider, Profile
  <1>3. WorkspaceOfSession'
    BY DEF WorkspaceOfSession, InConsole, provider, place
  <1>4. QED BY <1>1, <1>2, <1>3

LEMMA TabsFacts ==
    ASSUME IInv, NEW w \in Windows
    PROVE  /\ openTabs[w] \in Seq(ConsolePaths) /\ Distinct(openTabs[w])
           /\ path[w] \in ConsolePaths \cup {"/login"}
  BY DEF IInv, SessionTypeOK, WorkspaceOfSession, Distinct

LEMMA WindowIInv == ASSUME IInv, NEW w \in Windows, WindowNext(w) PROVE IInv'
  <1>0. <<>> \in Seq(ConsolePaths) /\ Distinct(<<>>)
    BY DEF Distinct
  <1>1. ASSUME NEW p \in Destinations \cup {path[w]}, Load(w, p) PROVE IInv'
    BY <1>1, LoadIInv
  <1>2. CASE MeAnswered(w)
    BY <1>2, MeAnsweredIInv
  <1>3. CASE MeFailed(w)
    <2>1. path[w] \in ConsolePaths \cup {"/login"} /\ from[w] \in ConsolePaths \cup {"/login", None}
      BY DEF IInv, SessionTypeOK
    <2>2. QED BY <1>3, <2>1, DropIInv DEF MeFailed
  <1>4. ASSUME NEW a \in Accounts, SubmitLogin(w, a) PROVE IInv'
    <2>1. /\ isReady[w] /\ token[w] = None /\ signing' = [signing EXCEPT ![w] = a]
          /\ UNCHANGED <<storage, server, provider, place, calls, foreign, refused>>
      BY <1>4 DEF SubmitLogin
    <2>2. signing' \in [Windows -> Accounts \cup {None}] /\ SigningOut'
      BY <2>1 DEF IInv, SessionTypeOK, SigningOut, provider
    <2>3. QED BY <2>1, <2>2, AsideIInv DEF IInv, SessionTypeOK, server
  <1>5. CASE LoginAccepted(w)
    BY <1>5, LoginAcceptedIInv
  <1>6. CASE LoginRefused(w)
    BY <1>6, LoginRefusedIInv
  <1>7. CASE SignOut(w)
    BY <1>7, DropIInv DEF SignOut
  <1>8. CASE EmptyLogout(w)
    BY <1>0, <1>8, MoveIInv DEF EmptyLogout, Stay
  <1>9. ASSUME NEW item \in NavSet, FollowLink(w, item) PROVE IInv'
    <2>1. item.key \in ConsolePaths
      BY DEF NavKeys, ConsolePaths
    <2>2. QED BY <1>9, <2>1, TabsFacts, MoveIInv DEF FollowLink
  <1>10. ASSUME NEW i \in DOMAIN openTabs[w], SwitchTab(w, i) PROVE IInv'
    <2>1. openTabs[w][i] \in ConsolePaths
      BY TabsFacts
    <2>2. QED BY <1>10, <2>1, TabsFacts, MoveIInv DEF SwitchTab
  <1>11. ASSUME NEW i \in DOMAIN openTabs[w], CloseTab(w, i) PROVE IInv'
    <2> DEFINE next == Without(openTabs[w], i)
               p == IF openTabs[w][i] = path[w] THEN next[Len(next)] ELSE path[w]
    <2>1. /\ Len(openTabs[w]) > 1 /\ Rest(w, token[w], p, None, next) /\ Stay(w)
      BY <1>11 DEF CloseTab
    <2>2. next \in Seq(ConsolePaths) /\ Distinct(next) /\ next[Len(next)] \in ConsolePaths
      BY <2>1, TabsFacts, WithoutFacts
    <2>3. p \in ConsolePaths \cup {"/login"}
      BY <2>2, TabsFacts
    <2> HIDE DEF next, p
    <2>4. QED BY <2>1, <2>2, <2>3, MoveIInv
  <1>12. CASE CloseOthers(w)
    <2>1. /\ path[w] \in ConsolePaths /\ Rest(w, token[w], path[w], None, <<path[w]>>) /\ Stay(w)
      BY <1>12 DEF CloseOthers, InConsole
    <2>2. <<path[w]>> \in Seq(ConsolePaths) /\ Distinct(<<path[w]>>)
      BY <2>1 DEF Distinct
    <2>3. QED BY <2>1, <2>2, MoveIInv
  <1>13. CASE Request(w)
    <2>1. /\ calls' = [calls EXCEPT ![w] = @ \cup {storedToken}]
          /\ UNCHANGED <<storage, server, provider, signing, place, foreign, refused>>
      BY <1>13 DEF Request
    <2>2. calls' \in [Windows -> SUBSET (Tokens \cup {None})] /\ SigningOut'
      BY <2>1 DEF IInv, SessionTypeOK, SigningOut, provider
    <2>3. QED BY <2>1, <2>2, AsideIInv DEF IInv, SessionTypeOK, server
  <1>14. ASSUME NEW t \in calls[w], Answered(w, t) PROVE IInv'
    BY <1>14, AnsweredIInv
  <1>15. QED
    BY <1>1, <1>2, <1>3, <1>4, <1>5, <1>6, <1>7, <1>8, <1>9, <1>10, <1>11, <1>12, <1>13, <1>14
       DEF WindowNext

LEMMA NextIInv == IInv /\ [Next]_vars => IInv'
  <1> SUFFICES ASSUME IInv, [Next]_vars PROVE IInv'
    OBVIOUS
  <1>1. ASSUME NEW w \in Windows, WindowNext(w) PROVE IInv'
    BY <1>1, WindowIInv
  <1>2. ASSUME NEW t \in Tokens, Expire(t) PROVE IInv'
    <2>1. /\ revoked' = revoked \cup {t}
          /\ UNCHANGED <<storage, signIns, provider, signing, place, calls, foreign, refused>>
      BY <1>2 DEF Expire
    <2>2. QED
      BY <2>1, AsideIInv DEF IInv, SessionTypeOK, SigningOut, provider
  <1>3. CASE UNCHANGED vars
    BY <1>3, AsideIInv DEF vars, IInv, SessionTypeOK, SigningOut, provider, server
  <1>4. QED BY <1>1, <1>2, <1>3 DEF Next

LEMMA AlwaysIInv == Spec => []IInv
  BY InitIInv, NextIInv, PTL DEF Spec

-----------------------------------------------------------------------------
\* Theorems.

\* The state of the console has its type, however many windows share it.
THEOREM SessionTypeCorrect == Spec => []SessionTypeOK
  <1>1. IInv => SessionTypeOK
    BY DEF IInv
  <1>2. QED BY <1>1, AlwaysIInv, PTL

\* A ready window shows the profile of the account its token was issued to,
\* whatever was in the storage when it loaded.  (auth/index.tsx:48-83)
THEOREM ShownIsOwnerCorrect == Spec => []ShownIsOwner
  <1>1. IInv => ShownIsOwner
    BY DEF IInv
  <1>2. QED BY <1>1, AlwaysIInv, PTL

\* Requests are made as the account on show, or a 401 emptied the storage, or
\* another window changed it.  (api.ts:978-1024)
THEOREM RequestsCorrect == Spec => []RequestsAsShown
  <1>1. IInv => RequestsAsShown
    BY DEF IInv, SentAsShown, RequestsAsShown
  <1>2. QED BY <1>1, AlwaysIInv, PTL

\* Tabs are open once, belong to a session, and include the page on show.
\* (AdminLayout.tsx:185-275)
THEOREM WorkspaceCorrect == Spec => []WorkspaceOfSession
  <1>1. IInv => WorkspaceOfSession
    BY DEF IInv
  <1>2. QED BY <1>1, AlwaysIInv, PTL

\* Only an accepted sign-in gives a window without a session one at once.
LEMMA SignsIn ==
    ASSUME IInv, Next, NEW w \in Windows, token[w] = None, token'[w] # None, isReady'[w]
    PROVE  LoginAccepted(w)
  <1> USE DEF IInv
  <1>1. PICK v \in Windows : WindowNext(v)
    BY DEF Next, Expire, provider
  <1>2. ASSUME NEW t, NEW u, NEW ready, NEW asked, Provide(v, t, u, ready, asked)
        PROVE  v = w /\ token'[w] = t /\ isReady'[w] = ready
    BY <1>2 DEF Provide, SessionTypeOK
  <1>3. token' # token
    OBVIOUS
  <1>4. ASSUME NEW p, Load(v, p) PROVE FALSE
    <2> DEFINE ready == storedToken = None
    <2>1. Provide(v, storedToken, storedUser, ready, storedToken)
      BY <1>4 DEF Load
    <2> HIDE DEF ready
    <2>2. token'[w] = storedToken /\ isReady'[w] = ready
      BY <1>2, <2>1
    <2>3. QED BY <2>2 DEF ready
  <1>5. ASSUME MeAnswered(v) PROVE FALSE
    <2>1. Provide(v, token[v], Profile(me[v].account), TRUE, None)
      BY <1>5 DEF MeAnswered
    <2>2. QED BY <1>2, <2>1
  <1>6. ASSUME MeFailed(v) \/ SignOut(v) PROVE FALSE
    <2>1. Provide(v, None, None, TRUE, None)
      BY <1>6 DEF MeFailed, SignOut
    <2>2. QED BY <1>2, <2>1
  <1>7. LoginAccepted(v)
    BY <1>1, <1>3, <1>4, <1>5, <1>6
       DEF WindowNext, SubmitLogin, LoginRefused, EmptyLogout, FollowLink, SwitchTab, CloseTab,
           CloseOthers, Request, Answered, Stay, provider
  <1>8. v = w
    BY <1>2, <1>7 DEF LoginAccepted
  <1>9. QED BY <1>7, <1>8

\* A sign-in from nowhere lands on a page the account has the permission for,
\* if it has any.  (login/index.tsx:16-34, permission-taxonomy.ts:113-120)
THEOREM LandingCorrect == Spec => LandingHeld
  <1>1. IInv /\ [Next]_vars => [LandsWithPermission]_vars
    <2> SUFFICES ASSUME IInv, Next, NEW w \in Windows,
                        token[w] = None, token'[w] # None, isReady'[w], from[w] \in {None, "/"}
                 PROVE  \/ \E item \in NavSet : /\ item.key = path'[w]
                                                /\ item.permission \in user'[w].permissions
                        \/ \A item \in NavSet : item.permission \notin user'[w].permissions
      BY DEF LandsWithPermission
    <2> DEFINE t == [account |-> signing[w], n |-> signIns + 1]
               u == Profile(signing[w])
               p == FirstAccessibleNavPath(u.permissions)
    <2>1. Provide(w, t, u, TRUE, None) /\ Rest(w, t, p, None, <<>>)
      BY SignsIn DEF LoginAccepted
    <2>2. user'[w] = u /\ t # None
      BY <2>1 DEF Provide, IInv, SessionTypeOK
    <2>3. p \in NavKeys
      BY LandingFacts
    <2>4. p # "/login" /\ Resolve(p) = p
      BY <2>3, ResolveFacts, LoginOutside DEF ConsolePaths
    <2> HIDE DEF t, p
    <2>5. Land(t, p, None).path = p
      BY <2>2, <2>4 DEF Land
    <2>6. path'[w] = p
      BY <2>1, <2>5 DEF Rest, IInv, SessionTypeOK
    <2>7. QED
      BY <2>2, <2>6, LandingFacts DEF p
  <1>2. QED BY <1>1, AlwaysIInv, PTL DEF Spec, LandingHeld
=============================================================================
