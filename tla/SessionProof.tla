----------------------------- MODULE SessionProof -----------------------------
(* Theorems about Session, for every set of users and of tabs.             *)
EXTENDS Session, TLAPS

(* What no step may forget while the session never changed behind a tab:   *)
(* a tab shows the session or nobody, and what a tab restores is it too.   *)
InStep ==
    ~raced => /\ \A t \in Tabs : app[t] \in {Guest, cookie}
              /\ \A r \in net : r.api = "query_user" => r.user = cookie

Inv == TypeOK /\ CookiesAgree /\ FormsAreForGuests /\ InStep

LEMMA InvInit == Init => Inv
<1> SUFFICES ASSUME Init PROVE Inv
  OBVIOUS
<1>1. TypeOK
  BY SessionAssumption DEF Init, TypeOK
<1>2. CookiesAgree /\ FormsAreForGuests /\ InStep
  BY DEF Init, CookiesAgree, FormsAreForGuests, InStep
<1> QED BY <1>1, <1>2 DEF Inv

LEMMA MountedPage ==
    ASSUME NEW p \in Pages \cup {None}, NEW a \in Users \cup {Guest}
    PROVE  /\ Mounted(p, a) \in Pages \cup {None}
           /\ a # Guest => Mounted(p, a) \notin Forms
  BY SessionAssumption DEF Mounted, Home, Pages, Homes, Forms

LEMMA Asked ==
    ASSUME TypeOK, NEW t \in Tabs, NEW u \in Users,
           NEW api \in {"query_user", "login", "logout", "signup", "create_ta"}
    PROVE  Request(t, api, u) \in Requests
  BY DEF TypeOK, Request, Requests

LEMMA InvClick ==
    ASSUME Inv, NEW t \in Tabs, Click(t)
    PROVE  Inv'
<1> USE SessionAssumption DEF Inv, TypeOK, CookiesAgree, FormsAreForGuests, InStep
<1>1. ASSUME NEW p \in Pages, Open(t, p)
      PROVE  Inv'
  <2>1. mid # None => Request(t, "query_user", mid) \in Requests
    BY Asked
  <2>2. posts' \in Nat /\ net' \subseteq Requests
    BY <1>1, <2>1 DEF Open
  <2>3. \A r \in net' : r.api = "query_user" => r \in net \/ r.user = cookie
    BY <1>1 DEF Open, Request
  <2> QED BY <1>1, <2>2, <2>3 DEF Open, Pages, Forms
<1>2. ASSUME NEW u \in Users, SubmitLogin(t, u) \/ SubmitSignup(t, u) \/ SubmitAssistant(t, u)
      PROVE  Inv'
  <2>1. posts' \in Nat /\ net' \subseteq Requests
    BY <1>2, Asked DEF SubmitLogin, SubmitSignup, SubmitAssistant, Post
  <2>2. \A r \in net' : r.api = "query_user" => r \in net
    BY <1>2 DEF SubmitLogin, SubmitSignup, SubmitAssistant, Post, Request
  <2> QED BY <1>2, <2>1, <2>2 DEF SubmitLogin, SubmitSignup, SubmitAssistant
<1>3. CASE GoLogout(t)
  <2>1. posts' \in Nat /\ net' \subseteq Requests
    BY <1>3, Asked DEF GoLogout, Post
  <2>2. \A r \in net' : r.api = "query_user" => r \in net
    BY <1>3 DEF GoLogout, Post, Request
  <2> QED BY <1>3, <2>1, <2>2 DEF GoLogout, Pages, Forms
<1>4. CASE GoHome(t)
  <2>1. Home(app[t]) \in Homes
    BY DEF Home, Homes
  <2> QED BY <1>4, <2>1 DEF GoHome, Pages, Homes, Forms
<1>5. CASE GoInner(t)
  BY <1>5 DEF GoInner, Pages, Forms
<1>6. ASSUME NEW p \in Forms, GoForm(t, p)
      PROVE  Inv'
  BY <1>6, MountedPage DEF GoForm, Move, Pages
<1>7. CASE OpenDialog(t)
  BY <1>7 DEF OpenDialog
<1>8. CASE CancelDialog(t)
  BY <1>8 DEF CancelDialog
<1> QED BY <1>1, <1>2, <1>3, <1>4, <1>5, <1>6, <1>7, <1>8 DEF Click

LEMMA ShowKeeps ==
    ASSUME TypeOK, FormsAreForGuests, NEW t \in Tabs, NEW u \in Users, Show(t, u)
    PROVE  /\ app' \in [Tabs -> Users \cup {Guest}] /\ page' \in [Tabs -> Pages \cup {None}]
           /\ FormsAreForGuests'
<1> USE SessionAssumption DEF TypeOK
<1>1. page[t] \in Pages \cup {None} /\ app[t] \in Users \cup {Guest}
  OBVIOUS
<1>2. Mounted(page[t], u) \in Pages \cup {None} /\ Mounted(page[t], u) \notin Forms
  BY <1>1, MountedPage
<1>3. app' \in [Tabs -> Users \cup {Guest}] /\ page' \in [Tabs -> Pages \cup {None}]
  BY <1>1, <1>2 DEF Show
<1>4. page'[t] \notin Forms
  <2>1. u # app[t] => page'[t] = Mounted(page[t], u)
    BY DEF Show
  <2>2. u = app[t] => page'[t] = page[t]
    BY DEF Show
  <2> QED BY <1>2, <2>1, <2>2, <1>1 DEF FormsAreForGuests
<1> QED BY <1>3, <1>4 DEF Show, FormsAreForGuests

LEMMA InvAnswer ==
    ASSUME Inv, NEW r \in net, Answer(r)
    PROVE  Inv'
<1> USE SessionAssumption DEF Inv, TypeOK, CookiesAgree, FormsAreForGuests, InStep
<1>1. r.tab \in Tabs /\ r.user \in Users /\ Guest \notin Users /\ r.session \in Users \cup {None}
  BY DEF Requests
<1>2. CASE RestoreAnswer(r)
  <2>1. CASE r.session # None /\ {r.session, r.user} \subseteq users
    <3>1. Show(r.tab, r.user)
      BY <1>2, <2>1 DEF RestoreAnswer
    <3> QED BY <1>1, <1>2, <3>1, ShowKeeps DEF RestoreAnswer, Show
  <2>2. CASE ~(r.session # None /\ {r.session, r.user} \subseteq users)
    <3>1. Move(r.tab, "login") /\ app' = app
      BY <1>2, <2>2 DEF RestoreAnswer
    <3> QED BY <1>1, <1>2, <3>1, MountedPage DEF RestoreAnswer, Move, Pages, Forms
  <2> QED BY <2>1, <2>2
<1>3. CASE LoginAnswer(r)
  <2>1. Home(r.user) \in Homes
    BY DEF Home, Homes
  <2>2. FormsAreForGuests' /\ page' \in [Tabs -> Pages \cup {None}]
    BY <1>1, <1>3, <2>1 DEF LoginAnswer, Pages, Homes, Forms
  <2> QED BY <1>1, <1>3, <2>2 DEF LoginAnswer, Behind
<1>4. CASE LoginRefused(r) \/ Lose(r)
  BY <1>1, <1>4 DEF LoginRefused, Lose
<1>5. CASE LogoutAnswer(r)
  BY <1>1, <1>5 DEF LogoutAnswer, Behind, Pages, Forms
<1>6. CASE SignupAnswer(r)
  <2>1. app[r.tab] \in Users \cup {Guest} /\ "login" \in Pages
    BY <1>1 DEF Pages, Forms
  <2>2. Mounted("login", app[r.tab]) \in Pages \cup {None}
    BY <2>1, MountedPage
  <2>3. app[r.tab] # Guest => Mounted("login", app[r.tab]) \notin Forms
    BY <2>1, MountedPage
  <2>4. page' \in [Tabs -> Pages \cup {None}] /\ FormsAreForGuests'
    BY <1>1, <1>6, <2>2, <2>3 DEF SignupAnswer, Move
  <2> QED BY <1>1, <1>6, <2>4 DEF SignupAnswer
<1>7. CASE AssistantAnswer(r)
  BY <1>1, <1>7 DEF AssistantAnswer
<1> QED BY <1>2, <1>3, <1>4, <1>5, <1>6, <1>7 DEF Answer

LEMMA InvNext == Inv /\ [Next]_vars => Inv'
<1> SUFFICES ASSUME Inv, [Next]_vars PROVE Inv'
  OBVIOUS
<1>1. CASE CloseBrowser
  BY <1>1, SessionAssumption DEF CloseBrowser, Inv, TypeOK, CookiesAgree, FormsAreForGuests, InStep
<1>2. ASSUME NEW u \in Users, DeleteUser(u) PROVE Inv'
  BY <1>2 DEF DeleteUser, Inv, TypeOK, CookiesAgree, FormsAreForGuests, InStep
<1>3. CASE UNCHANGED vars
  BY <1>3 DEF vars, Inv, TypeOK, CookiesAgree, FormsAreForGuests, InStep
<1> QED BY <1>1, <1>2, <1>3, InvClick, InvAnswer DEF Next

(* Everything Session keeps at any time.                                   *)
THEOREM SessionInv == Spec => []Inv
  BY InvInit, InvNext, PTL DEF Spec

(* mid and the session cookie name the same user, for any number of tabs   *)
(* and any order of answers to their logins and logouts.                   *)
THEOREM CookiesAlwaysAgree == Spec => []CookiesAgree
<1>1. Inv => CookiesAgree
  BY DEF Inv
<1> QED BY <1>1, SessionInv, PTL

(* No tab shows a user and a login or signup form.                         *)
THEOREM FormsForGuests == Spec => []FormsAreForGuests
<1>1. Inv => FormsAreForGuests
  BY DEF Inv
<1> QED BY <1>1, SessionInv, PTL

(* A tab shows the user of the session, unless the session was changed     *)
(* behind it.                                                              *)
THEOREM ShowsSession == Spec => []ShownIsSession
<1>1. Inv => ShownIsSession
  BY DEF Inv, InStep, ShownIsSession
<1> QED BY <1>1, SessionInv, PTL
===============================================================================
