------------------------------- MODULE Session -------------------------------
(***************************************************************************)
(* Who is logged in: App.js, auth-component/LoginSignuppage.js and         *)
(* basic-component/topbottom-bar.js of the frontend.                       *)
(*                                                                         *)
(* A tab shows a user because App holds one in its state; the backend      *)
(* knows the user by a signed cookie, and the frontend keeps the id in a   *)
(* cookie of its own, mid.  The tabs share both cookies.  A request takes  *)
(* the cookies of the moment it is sent; what its answer does, to the      *)
(* cookies and to the tab, happens when the answer arrives, in any order.  *)
(* An answer may be lost (ajax_post then shows a message and calls nothing).*)
(***************************************************************************)
EXTENDS Naturals, FiniteSets

CONSTANTS
    Users, Tabs,
    Role,        \* Role[u]: 1 student, 2 assistant, 3 administrator
    Registered,  \* the users that are there from the start
    MaxPosts,    \* bounds the requests that are sent
    Guest,       \* App's state false, id -1
    None

Homes == {"student", "ta", "admin"}
Forms == {"login", "signup"}
Pages == Homes \cup Forms \cup {"logout", "inner"}

ASSUME SessionAssumption ==
    /\ Role \in [Users -> 1..3] /\ Registered \subseteq Users
    /\ MaxPosts \in Nat
    /\ Guest \notin Users /\ None \notin Users \cup Pages

VARIABLES
    users,     \* the table of users
    cookie,    \* user_id: the session the backend sees
    mid,       \* the id the frontend restores a session from
    app,       \* App's state: the user a tab shows
    page,      \* the page a tab is on
    modal,     \* tabs that show the dialog for a new assistant
    net,       \* requests whose answer has not arrived
    posts,     \* how many were sent
    raced      \* history: the session changed behind a tab that shows, or restores, another

vars == <<users, cookie, mid, app, page, modal, net, posts, raced>>

(* The page of a role; redirects of the login and signup pages.            *)
Home(u) == CASE Role[u] = 1 -> "student" [] Role[u] = 2 -> "ta" [] OTHER -> "admin"
Mounted(p, a) == IF p \in Forms /\ a # Guest THEN Home(a) ELSE p

Init ==
    /\ users = Registered /\ cookie = None /\ mid = None
    /\ app = [t \in Tabs |-> Guest] /\ page = [t \in Tabs |-> None]
    /\ modal = {} /\ net = {} /\ posts = 0 /\ raced = FALSE

Request(t, api, u) == [tab |-> t, api |-> api, user |-> u, session |-> cookie, n |-> posts]

Post(t, api, u) ==
    /\ posts < MaxPosts /\ posts' = posts + 1
    /\ net' = net \cup {Request(t, api, u)}

(* A tab other than t shows someone else, or is still restoring someone    *)
(* else, when the session becomes that of u.                               *)
Behind(t, u) ==
    \/ \E s \in Tabs \ {t} : app[s] \notin {Guest, u}
    \/ \E r \in net : r.api = "query_user" /\ r.user # u

Move(t, p) == page' = [page EXCEPT ![t] = Mounted(p, app[t])]

-----------------------------------------------------------------------------
(* The browser loads the program anew.  Without mid App redirects to the   *)
(* login page; with it App asks for the user while the page is already     *)
(* mounted, for a guest.  Answers to what the tab had sent are dropped.    *)
Open(t, p) ==
    /\ posts < MaxPosts
    /\ app' = [app EXCEPT ![t] = Guest] /\ modal' = modal \ {t}
    /\ page' = [page EXCEPT ![t] = IF mid = None THEN "login" ELSE p]
    /\ net' = {r \in net : r.tab # t}
            \cup IF mid = None THEN {} ELSE {Request(t, "query_user", mid)}
    /\ posts' = IF mid = None THEN posts ELSE posts + 1
    /\ UNCHANGED <<users, cookie, mid, raced>>

(* All tabs and the session cookies go.                                    *)
CloseBrowser ==
    /\ cookie' = None /\ mid' = None
    /\ app' = [t \in Tabs |-> Guest] /\ page' = [t \in Tabs |-> None]
    /\ modal' = {} /\ net' = {}
    /\ UNCHANGED <<users, posts, raced>>

SubmitLogin(t, u) ==
    /\ page[t] = "login" /\ Post(t, "login", u)
    /\ UNCHANGED <<users, cookie, mid, app, page, modal, raced>>

SubmitSignup(t, u) ==
    /\ page[t] = "signup" /\ Role[u] = 1 /\ Post(t, "signup", u)
    /\ UNCHANGED <<users, cookie, mid, app, page, modal, raced>>

(* The menu of a tab that shows a user leads to the logout page, whose     *)
(* mounting sends the request.  The page sends nothing when it is mounted  *)
(* for a guest (see Open).                                                 *)
GoLogout(t) ==
    /\ page[t] # None /\ app[t] # Guest
    /\ Post(t, "logout", app[t]) /\ page' = [page EXCEPT ![t] = "logout"]
    /\ UNCHANGED <<users, cookie, mid, app, modal, raced>>

(* The bar: home, the pages of a logged-in user, login and signup.         *)
GoHome(t) ==
    /\ page[t] # None /\ app[t] # Guest
    /\ page' = [page EXCEPT ![t] = Home(app[t])]
    /\ UNCHANGED <<users, cookie, mid, app, modal, net, posts, raced>>

GoInner(t) ==
    /\ page[t] # None /\ app[t] # Guest
    /\ page' = [page EXCEPT ![t] = "inner"]
    /\ UNCHANGED <<users, cookie, mid, app, modal, net, posts, raced>>

GoForm(t, p) ==
    /\ page[t] # None /\ app[t] = Guest /\ Move(t, p)
    /\ UNCHANGED <<users, cookie, mid, app, modal, net, posts, raced>>

OpenDialog(t) ==
    /\ page[t] # None /\ app[t] # Guest /\ Role[app[t]] = 3
    /\ modal' = modal \cup {t}
    /\ UNCHANGED <<users, cookie, mid, app, page, net, posts, raced>>

CancelDialog(t) ==
    /\ t \in modal /\ modal' = modal \ {t}
    /\ UNCHANGED <<users, cookie, mid, app, page, net, posts, raced>>

SubmitAssistant(t, u) ==
    /\ t \in modal /\ Role[u] = 2 /\ Post(t, "create_ta", u)
    /\ UNCHANGED <<users, cookie, mid, app, page, modal, raced>>

-----------------------------------------------------------------------------
(* setState of App re-renders the tab: a login or signup page that sees a  *)
(* new id goes to the home of that user.                                   *)
Show(t, u) ==
    /\ app' = [app EXCEPT ![t] = u]
    /\ page' = [page EXCEPT ![t] = IF u # app[t] THEN Mounted(@, u) ELSE @]

(* FAULT: the logout page does not tell App.                               *)
LogoutAppFault(r) ==
    /\ r.api = "logout" /\ net' = net \ {r}
    /\ IF r.session # None
       THEN cookie' = None /\ mid' = None /\ raced' = (raced \/ Behind(r.tab, Guest))
       ELSE UNCHANGED <<cookie, mid, raced>>
    /\ Move(r.tab, "login")
    /\ UNCHANGED <<users, app, modal, posts>>

-----------------------------------------------------------------------------
(* Answers.                                                                *)
(* query_user_callback: the row of mid, seen with the session that was     *)
(* sent; an error or no row leads to the login page.                       *)
RestoreAnswer(r) ==
    /\ r.api = "query_user" /\ net' = net \ {r}
    /\ IF r.session # None /\ {r.session, r.user} \subseteq users
       THEN Show(r.tab, r.user)
       ELSE Move(r.tab, "login") /\ UNCHANGED app
    /\ UNCHANGED <<users, cookie, mid, modal, posts, raced>>

(* login_callback: the cookies, App and the page change together, on       *)
(* whatever page the tab is by now.                                        *)
LoginAnswer(r) ==
    /\ r.api = "login" /\ r.user \in users /\ net' = net \ {r}
    /\ cookie' = r.user /\ mid' = r.user
    /\ app' = [app EXCEPT ![r.tab] = r.user]
    /\ page' = [page EXCEPT ![r.tab] = Home(r.user)]
    /\ raced' = (raced \/ Behind(r.tab, r.user))
    /\ UNCHANGED <<users, modal, posts>>

(* A wrong password: a message.                                            *)
LoginRefused(r) ==
    /\ r.api = "login" /\ net' = net \ {r}
    /\ UNCHANGED <<users, cookie, mid, app, page, modal, posts, raced>>

(* logout_callback: the backend clears its cookie if the request carried   *)
(* one, the frontend then removes mid; the tab forgets its user in any case.*)
LogoutAnswer(r) ==
    /\ r.api = "logout" /\ net' = net \ {r}
    /\ IF r.session # None
       THEN cookie' = None /\ mid' = None /\ raced' = (raced \/ Behind(r.tab, Guest))
       ELSE UNCHANGED <<cookie, mid, raced>>
    /\ app' = [app EXCEPT ![r.tab] = Guest] /\ page' = [page EXCEPT ![r.tab] = "login"]
    /\ UNCHANGED <<users, modal, posts>>

(* signup_callback: the new student is sent to the login page, from        *)
(* whatever page the tab is on; a name that is taken only gives a message. *)
SignupAnswer(r) ==
    /\ r.api = "signup" /\ net' = net \ {r} /\ users' = users \cup {r.user}
    /\ IF r.user \in users THEN UNCHANGED page ELSE Move(r.tab, "login")
    /\ UNCHANGED <<cookie, mid, app, modal, posts, raced>>

MayAdd(r) == r.session \in users /\ Role[r.session] = 3

AssistantAnswer(r) ==
    /\ r.api = "create_ta" /\ net' = net \ {r}
    /\ IF MayAdd(r) /\ r.user \notin users
       THEN users' = users \cup {r.user} /\ modal' = modal \ {r.tab}
       ELSE UNCHANGED <<users, modal>>
    /\ UNCHANGED <<cookie, mid, app, page, posts, raced>>

(* No answer: nothing of the callback runs, whether or not the backend has *)
(* handled the request.                                                    *)
Lose(r) ==
    /\ net' = net \ {r}
    /\ \/ users' = users
       \/ /\ r.api = "signup" \/ (r.api = "create_ta" /\ MayAdd(r))
          /\ users' = users \cup {r.user}
    /\ UNCHANGED <<cookie, mid, app, page, modal, posts, raced>>

(* The administrator deletes a user (AdminTable).                          *)
DeleteUser(u) ==
    /\ users' = users \ {u}
    /\ UNCHANGED <<cookie, mid, app, page, modal, net, posts, raced>>

Answer(r) ==
    \/ RestoreAnswer(r) \/ LoginAnswer(r) \/ LoginRefused(r) \/ LogoutAnswer(r)
    \/ SignupAnswer(r) \/ AssistantAnswer(r) \/ Lose(r)

Click(t) ==
    \/ \E p \in Pages : Open(t, p)
    \/ \E u \in Users : SubmitLogin(t, u) \/ SubmitSignup(t, u) \/ SubmitAssistant(t, u)
    \/ GoLogout(t) \/ GoHome(t) \/ GoInner(t)
    \/ \E p \in Forms : GoForm(t, p)
    \/ OpenDialog(t) \/ CancelDialog(t)

Next ==
    \/ \E t \in Tabs : Click(t)
    \/ \E r \in net : Answer(r)
    \/ CloseBrowser
    \/ \E u \in Users : DeleteUser(u)

Spec == Init /\ [][Next]_vars

-----------------------------------------------------------------------------
Requests == [tab : Tabs, api : {"query_user", "login", "logout", "signup", "create_ta"},
             user : Users, session : Users \cup {None}, n : Nat]

(* Every variable has its type.                                            *)
TypeOK ==
    /\ users \subseteq Users
    /\ cookie \in Users \cup {None} /\ mid \in Users \cup {None}
    /\ app \in [Tabs -> Users \cup {Guest}]
    /\ page \in [Tabs -> Pages \cup {None}]
    /\ modal \subseteq Tabs /\ net \subseteq Requests
    /\ posts \in Nat /\ raced \in BOOLEAN

(* What a tab restores after a reload is the session the backend sees: the *)
(* two cookies name the same user, however the answers of several tabs     *)
(* to logins and logouts interleave.                                       *)
CookiesAgree == mid = cookie

(* A tab that shows a user never shows the login or the signup form,       *)
(* whether the user was restored, logged in late or came back by a link.   *)
FormsAreForGuests == \A t \in Tabs : app[t] # Guest => page[t] \notin Forms

(* A tab shows the user its requests are made for, unless the session was  *)
(* changed by another tab or while the tab was restoring an older one (the *)
(* late answer to query_user then replaces the user who has just logged    *)
(* in: query_user_callback does not look at the state).                    *)
ShownIsSession == ~raced => \A t \in Tabs : app[t] # Guest => app[t] = cookie
==============================================================================
