----------------------------- MODULE AdminPage -----------------------------
(***************************************************************************)
(* The administration page (src/src/host/html/admin.js) in several         *)
(* browsers, and the handlers of WebPageMain.cpp that answer it, on the    *)
(* tasks of HostTasks.  A page shows a copy of the table of sensors, which *)
(* its user edits and posts as a whole; the requests of a page are         *)
(* answered in any order, or are lost.                                     *)
(*                                                                         *)
(* The host serves the page and pairs sensors all the time: its modes and  *)
(* its network are the business of HostTasks.  Of the properties a page    *)
(* may post any number: what the fields had from the start, what the host  *)
(* had some time ago, or what is typed.  Whether a browser knows the       *)
(* credentials is left open: auth() lets any request pass, or refuses it.  *)
(* Messages to the user are left out.                                      *)
(***************************************************************************)
EXTENDS HostTasks

CONSTANTS Page,         \* browsers with the page
          Number,       \* what the field of the period may hold
          Markup,       \* names that HTML reads as a tag
          MaxPosts,     \* bound: posts of a page that wait together
          NoWork

Uint16 == 65536

ASSUME AdminAssumption ==
  /\ Number \subseteq Nat /\ \A n \in Number : n % Uint16 \in Period
  /\ Markup \subseteq UserName
  /\ NoName \notin UserName
  /\ Mapping = SensorMap

VARIABLES
  page,      \* what a page shows, see Shown
  asked,     \* the pages whose fetch of the configuration is under way
  answers,   \* configurations on their way to a page
  posts,     \* posts on their way to the host
  work       \* history: the post whose table the web task goes through

connections == <<asked, answers, posts>>
pageVars == <<page, connections, work>>
adminVars == <<vars, pageVars>>

\* A page; history: the rows whose names its user has edited since it was loaded,
\* or innerHTML has emptied, and fresh, no other has changed a sensor since then.
Shown == [rows : SensorMap, edited : SUBSET IDs, fresh : BOOLEAN]

Answer == [page : Page, null : BOOLEAN, sensors : SensorMap, fresh : BOOLEAN]

\* A post, with the history of the page it was made from; old says that this
\* page was loaded again since.
Post == [url : {"setCredentials", "updateSensorsMapping", "setProperties",
                "removeSensor"},
         page : Page, rows : SensorMap, edited : SUBSET IDs,
         fresh : BOOLEAN, old : BOOLEAN]

ASSUME NoWorkAssumption == NoWork \notin Post

\* admin.html before the configuration has come.
AdminHtml == [rows |-> NoMapping, edited |-> {}, fresh |-> FALSE]

\* A host without sensors whose network is configured, which is left out of the
\* document, and pages that have just been loaded.
PageInit ==
  /\ m_jsonData = setDefault /\ file = setDefault
  /\ m_mode = "NORMAL_OPERATION" /\ services = TRUE /\ m_pairingEnabled = TRUE
  /\ pc = EachTask("idle") /\ return = EachTask("idle")
  /\ sensor = EachTask(NoSensor) /\ data = EachTask(Blank)
  /\ sensorsMapping = NoMapping /\ todo = {}
  /\ page = [p \in Page |-> AdminHtml]
  /\ asked = Page
  /\ answers = {} /\ posts = {} /\ work = NoWork

\* innerHTML takes the name for a tag, of which innerText gives nothing.
InnerText(name) == IF name \in Markup THEN NoName ELSE name

----------------------------------------------------------------------------
\* The page.

Aged(p, r) == IF r.page = p THEN [r EXCEPT !.old = TRUE] ELSE r

\* The page is loaded and fetches the configuration.
Reload(p) ==
  /\ page' = [page EXCEPT ![p] = AdminHtml]
  /\ asked' = asked \cup {p}
  /\ answers' = {a \in answers : a.page # p}
  /\ work' = IF work = NoWork THEN NoWork ELSE Aged(p, work)
  /\ UNCHANGED vars

Load(p) ==
  /\ Reload(p)
  /\ posts' = {Aged(p, r) : r \in posts}

\* The answer of the host.  Of a host that never had a sensor, Object.entries
\* throws on null before the fields are filled.
fetchConfiguration(a) ==
  /\ a \in answers
  /\ answers' = answers \ {a}
  /\ LET names == [id \in DOMAIN a.sensors |-> InnerText(a.sensors[id])]
     IN  page' = IF a.null THEN page
                 ELSE [page EXCEPT ![a.page] =
                         [rows   |-> names,
                          edited |-> {id \in DOMAIN names : names[id] = NoName},
                          fresh  |-> a.fresh]]
  /\ UNCHANGED <<vars, asked, posts, work>>

Rename(p, id, name) ==
  /\ id \in DOMAIN page[p].rows
  /\ page' = [page EXCEPT ![p].rows[id] = name, ![p].edited = @ \cup {id}]
  /\ UNCHANGED <<vars, connections, work>>

MayPost(p) == Cardinality({r \in posts : r.page = p}) < MaxPosts

\* The page posts r and stays as it is.
Send(p, r) ==
  /\ MayPost(p)
  /\ posts' = posts \cup {r}
  /\ UNCHANGED <<vars, page, asked, answers, work>>

\* The whole table, whatever row was edited.
Table(p) ==
  [url |-> "updateSensorsMapping", page |-> p, rows |-> page[p].rows,
   edited |-> page[p].edited, fresh |-> page[p].fresh, old |-> FALSE]

sendSensorsMapping(p) == Send(p, Table(p))

\* A post whose body says nothing of sensors.
OtherPost(p, url) ==
  [url |-> url, page |-> p, rows |-> NoMapping, edited |-> {},
   fresh |-> FALSE, old |-> FALSE]

\* sendOtherProperties and sendAdminCredentials; what is in the fields is chosen
\* as the host reads it.
SendFields(p, url) ==
  url \in {"setProperties", "setCredentials"} /\ Send(p, OtherPost(p, url))

Removal(p, id) ==
  [url |-> "removeSensor", page |-> p, rows |-> [i \in {id} |-> NoName],
   edited |-> {}, fresh |-> page[p].fresh, old |-> FALSE]

\* Mutation: the page stays as it is after a removal.
removeWithoutReload(p, id) ==
  id \in DOMAIN page[p].rows /\ Send(p, Removal(p, id))

\* The page is loaded again without waiting for the answer, so the fetch of the
\* configuration may overtake the removal.
sendSensorRemovalReq(p, id) ==
  /\ id \in DOMAIN page[p].rows
  /\ MayPost(p)
  /\ Reload(p)
  /\ posts' = {Aged(p, r) : r \in posts \cup {Removal(p, id)}}

----------------------------------------------------------------------------
\* What others show or post is fresh no more once by, a post or nobody's, has
\* changed something, but for what the same page made later on.
Follows(x, p, old, by) ==
  /\ by # NoWork /\ by.fresh /\ ~by.old
  /\ p = by.page /\ ~old
  /\ by.edited \subseteq x.edited

Unchanged == m_jsonData'.sensors = m_jsonData.sensors

OutdatedPages(by) ==
  [p \in Page |->
     [page[p] EXCEPT !.fresh =
        @ /\ (Unchanged \/ Follows(page[p], p, FALSE, by))]]

OutdatedPosts(rest, by) ==
  {[r EXCEPT !.fresh = @ /\ (Unchanged \/ Follows(r, r.page, r.old, by))] :
     r \in rest}

OutdatedAnswers == {[a EXCEPT !.fresh = @ /\ Unchanged] : a \in answers}

\* The history of a change of the document for by, with these posts left.
Changed(rest, by) ==
  /\ page' = OutdatedPages(by)
  /\ posts' = OutdatedPosts(rest, by)
  /\ answers' = OutdatedAnswers

----------------------------------------------------------------------------
\* The host: the steps of HostTasks, and the requests that start the web task's.

\* Pairing, the factory reset, and the steps of a handler of any task but for
\* the insertion of a posted row.
TaskStep ==
  /\ \/ Radio
     \/ FactoryReset
     \/ \E t \in Adder : ChooseName(t) \/ CheckSpace(t)
     \/ Insert("radio")
     \/ \E t \in Task : Dump(t) \/ Close(t)
  /\ Changed(posts, NoWork)
  /\ work' = IF work = NoWork THEN NoWork
             ELSE [work EXCEPT !.fresh = @ /\ Unchanged]
  /\ UNCHANGED asked

\* auth() passes; a post that it refuses is lost, or made again by the browser
\* that requestAuthentication() has ask its user.
Authorized(r) == r \in posts

\* With a wrong login configuration() answers 401 and then 200: the browser has
\* one of the two, and of the first the page makes nothing, as if it was lost.
configuration(p) ==
  /\ Free("web") /\ p \in asked
  /\ asked' = asked \ {p}
  /\ answers' = answers \cup
       {[page |-> p, null |-> m_jsonData.null,
         sensors |-> m_jsonData.sensors, fresh |-> TRUE]}
  /\ UNCHANGED <<vars, page, posts, work>>

updateSensorsMappingReq(r) ==
  /\ Authorized(r) /\ r.url = "updateSensorsMapping"
  /\ updateSensorsMapping(r.rows)
  /\ posts' = posts \ {r}
  /\ work' = r
  /\ UNCHANGED <<page, asked, answers>>

NextRow ==
  /\ LastItem \/ \E id \in todo : NextItem(id)
  /\ UNCHANGED pageVars

InsertRow ==
  /\ Insert("web")
  /\ Changed(posts, work)
  /\ UNCHANGED <<asked, work>>

removeSensorReq(r) ==
  /\ Authorized(r) /\ r.url = "removeSensor"
  /\ \E id \in DOMAIN r.rows : RemoveSensor(id)
  /\ Changed(posts \ {r}, r)
  /\ UNCHANGED <<asked, work>>

\* Mutation: the period is not cut to 16 bits.
setWholeNumber(r) ==
  /\ Authorized(r) /\ r.url = "setProperties"
  /\ \E number \in Number : setProperties(number)
  /\ posts' = posts \ {r}
  /\ UNCHANGED <<page, asked, answers, work>>

setPropertiesReq(r) ==
  /\ Authorized(r) /\ r.url = "setProperties"
  /\ \E number \in Number : setProperties(number % Uint16)
  /\ posts' = posts \ {r}
  /\ UNCHANGED <<page, asked, answers, work>>

setCredentialsReq(r) ==
  /\ Authorized(r) /\ r.url = "setCredentials"
  /\ \E credentials \in Credentials : setCredentials(credentials)
  /\ posts' = posts \ {r}
  /\ UNCHANGED <<page, asked, answers, work>>

Answered ==
  /\ SendOK
  /\ work' = NoWork
  /\ UNCHANGED <<page, connections>>

\* Nothing comes of a post that is lost, that loading the page again cancels,
\* that is refused with 401, or whose body comes in pieces, none of which parses.
LosePost(r) ==
  /\ r \in posts
  /\ posts' = posts \ {r}
  /\ UNCHANGED <<vars, page, asked, answers, work>>

LoseFetch(p) ==
  /\ asked' = asked \ {p} /\ answers' = {a \in answers : a.page # p}
  /\ UNCHANGED <<vars, page, posts, work>>

\* The host starts again, after its reset or because power fails.
Reboot ==
  /\ Start
  /\ Changed({}, NoWork)
  /\ asked' = {} /\ work' = NoWork
  /\ UNCHANGED app

----------------------------------------------------------------------------
PageNext ==
  \/ TaskStep \/ NextRow \/ InsertRow \/ Answered
  \/ \E p \in Page :
        \/ Load(p) \/ configuration(p) \/ LoseFetch(p)
        \/ sendSensorsMapping(p)
        \/ \E url \in {"setProperties", "setCredentials"} : SendFields(p, url)
        \/ \E id \in IDs :
              \/ sendSensorRemovalReq(p, id)
              \/ \E name \in UserName \cup {NoName} : Rename(p, id, name)
  \/ \E a \in answers : fetchConfiguration(a)
  \/ \E r \in posts : \/ updateSensorsMappingReq(r) \/ removeSensorReq(r)
                      \/ setPropertiesReq(r) \/ setCredentialsReq(r)
                      \/ LosePost(r)
  \/ Reboot

PageSpec == PageInit /\ [][PageNext]_adminVars

----------------------------------------------------------------------------
PageTypeOK ==
  /\ TypeOK
  /\ page \in [Page -> Shown]
  /\ asked \subseteq Page /\ answers \subseteq Answer /\ posts \subseteq Post
  /\ work \in Post \cup {NoWork}

\* A row of a posted table that its user did not edit changes nothing, and none
\* makes a sensor again, if since the page was filled no other page or task and
\* no reset or restart has changed a sensor, and no later post of the page
\* overtook this one (admin.js:85-116, WebPageMain.cpp:237).
OnlyEdited ==
  [][InsertRow /\ work.fresh =>
       /\ isSensorMapped(m_jsonData, sensor["web"].identifier)
       /\ sensor["web"].identifier \in work.edited \/ Unchanged]_adminVars
============================================================================
