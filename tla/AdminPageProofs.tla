-------------------------- MODULE AdminPageProofs --------------------------
(***************************************************************************)
(* For any browsers, sensors and names, and however the host's tasks       *)
(* interleave: a posted table changes only what its user edited, if the    *)
(* page it was made from is up to date.                                    *)
(***************************************************************************)
EXTENDS AdminPage, HostTasksProofs

\* Rows that make no sensor and differ from a document only where edited.
Harmless(c, rows, edited) ==
  \A id \in DOMAIN rows :
     /\ id \in DOMAIN c.sensors
     /\ id \in edited \/ (rows[id] = c.sensors[id] /\ rows[id] # NoName)

FreshPages == \A p \in Page : page[p].fresh =>
                 Harmless(m_jsonData, page[p].rows, page[p].edited)

FreshAnswers == \A a \in answers : a.fresh => a.sensors = m_jsonData.sensors

FreshPosts == \A r \in posts :
                 r.fresh /\ r.url = "updateSensorsMapping" =>
                   Harmless(m_jsonData, r.rows, r.edited)

\* Who asks for a removal loads the page again.
OldRemovals == \A r \in posts : r.url = "removeSensor" => r.old

\* What others have not changed agrees with the document wherever it waits, in
\* pages, in answers and in posts.
UpToDate == FreshPages /\ FreshAnswers /\ FreshPosts /\ OldRemovals

\* The web task goes through a table, or saves a row of it.
Handling == pc["web"] = "item" \/ return["web"] = "item"

Adding == {"naming", "space", "insert"}

\* The table is that of the post, and what is being added is a row of it, under
\* the name it was posted with if it has one.
TableInHand ==
  /\ Handling => work # NoWork /\ sensorsMapping = work.rows
  /\ pc["web"] \in Adding =>
       /\ return["web"] = "item"
       /\ sensor["web"].identifier \in DOMAIN sensorsMapping
       /\ sensorsMapping[sensor["web"].identifier] # NoName =>
            sensor["web"].name = sensorsMapping[sensor["web"].identifier]
  /\ return["web"] = "item" => pc["web"] \in Adding \cup {"dump", "close"}

FreshWork == Handling /\ work.fresh =>
               Harmless(m_jsonData, work.rows, work.edited)

\* The strengthening of OnlyEdited: a table agrees with the document from the
\* page it is shown in to the row that is inserted.
IInv == PageTypeOK /\ UpToDate /\ TableInHand /\ FreshWork

----------------------------------------------------------------------------
\* Types.

LEMMA NoRows == NoMapping \in SensorMap
<1>1. NoMapping \in [{} -> Name] /\ {} \in SUBSET IDs
  BY DEF NoMapping
<1> QED
  BY <1>1, SensorMapForm

LEMMA AgedType ==
  ASSUME NEW p, NEW r \in Post
  PROVE  /\ Aged(p, r) \in Post
         /\ Aged(p, r).url = r.url /\ Aged(p, r).page = r.page
         /\ Aged(p, r).rows = r.rows /\ Aged(p, r).edited = r.edited
         /\ Aged(p, r).fresh = r.fresh
         /\ r.old => Aged(p, r).old
         /\ r.page = p => Aged(p, r).old
  BY DEF Aged, Post

LEMMA RemovalType ==
  ASSUME PageTypeOK, NEW p \in Page, NEW id \in IDs
  PROVE  Removal(p, id) \in Post /\ Removal(p, id).url = "removeSensor"
                                 /\ Removal(p, id).page = p
<1>1. [i \in {id} |-> NoName] \in [{id} -> Name] /\ {id} \in SUBSET IDs
  BY DEF Name
<1>2. [i \in {id} |-> NoName] \in SensorMap
  BY <1>1, SensorMapForm
<1> QED
  BY <1>2 DEF Removal, Post, PageTypeOK, Shown

\* Marking what is out of date keeps types.
LEMMA OutdatedTypes ==
  ASSUME PageTypeOK, NEW by, NEW rest \in SUBSET posts
  PROVE  /\ OutdatedPages(by) \in [Page -> Shown]
         /\ OutdatedPosts(rest, by) \subseteq Post
         /\ OutdatedAnswers \subseteq Answer
<1>1. ASSUME NEW p \in Page
      PROVE  [page[p] EXCEPT !.fresh =
                @ /\ (Unchanged \/ Follows(page[p], p, FALSE, by))] \in Shown
  <2>1. page[p] \in Shown
    BY DEF PageTypeOK
  <2>2. (page[p].fresh /\ (Unchanged \/ Follows(page[p], p, FALSE, by))) \in BOOLEAN
    OBVIOUS
  <2> QED
    BY <2>1, <2>2 DEF Shown
<1>2. ASSUME NEW r \in rest
      PROVE  [r EXCEPT !.fresh =
                @ /\ (Unchanged \/ Follows(r, r.page, r.old, by))] \in Post
  <2>1. r \in Post
    BY DEF PageTypeOK
  <2>2. (r.fresh /\ (Unchanged \/ Follows(r, r.page, r.old, by))) \in BOOLEAN
    OBVIOUS
  <2> QED
    BY <2>1, <2>2 DEF Post
<1>3. ASSUME NEW a \in answers
      PROVE  [a EXCEPT !.fresh = @ /\ Unchanged] \in Answer
  BY DEF PageTypeOK, Answer
<1> QED
  BY <1>1, <1>2, <1>3 DEF OutdatedPages, OutdatedPosts, OutdatedAnswers

\* So does the history of a change.
LEMMA ChangedTypes ==
  ASSUME PageTypeOK, NEW by, NEW rest \in SUBSET posts, Changed(rest, by)
  PROVE  page' \in [Page -> Shown] /\ posts' \subseteq Post /\ answers' \subseteq Answer
  BY OutdatedTypes DEF Changed

LEMMA InitPageTypeOK == PageInit => PageTypeOK
<1> SUFFICES ASSUME PageInit PROVE PageTypeOK
  OBVIOUS
<1>1. AdminHtml \in Shown
  BY NoRows DEF AdminHtml, Shown
<1>2. /\ m_jsonData \in Conf /\ file \in File
      /\ pc \in [Task -> Step] /\ data \in [Task -> File]
      /\ sensor \in [Task -> [identifier : IDs \cup {NoName}, name : Name]]
      /\ return \in [Task -> {"idle", "item", "answer", "restart"}]
      /\ \A t \in Task : pc[t] = "idle"
  BY DefaultType, IdleTypes DEF PageInit, File
<1>3. TypeOK
  BY <1>2, IdleTypes DEF PageInit, TypeOK
<1> QED
  BY <1>1, <1>3 DEF PageInit, PageTypeOK

\* The steps of a page and of the connections, which leave the host alone.
PageStep(p) ==
  \/ Load(p) \/ configuration(p) \/ LoseFetch(p)
  \/ sendSensorsMapping(p)
  \/ \E url \in {"setProperties", "setCredentials"} : SendFields(p, url)
  \/ \E id \in IDs :
        \/ sendSensorRemovalReq(p, id)
        \/ \E name \in UserName \cup {NoName} : Rename(p, id, name)

\* Loading a page keeps types.
LEMMA ReloadTypes ==
  ASSUME PageTypeOK, NEW p \in Page, Reload(p)
  PROVE  /\ page' \in [Page -> Shown]
         /\ asked' \subseteq Page /\ answers' \subseteq Answer
         /\ work' \in Post \cup {NoWork}
<1>1. AdminHtml \in Shown
  BY NoRows DEF AdminHtml, Shown
<1>2. work' \in Post \cup {NoWork}
  BY AgedType DEF Reload, PageTypeOK
<1> QED
  BY <1>1, <1>2 DEF Reload, PageTypeOK

\* A host that is left alone keeps its types.
LEMMA HostSame == ASSUME TypeOK, UNCHANGED vars PROVE TypeOK'
  BY NextTypeOK

\* A page's own steps keep types.
LEMMA PageStepTypeOK ==
  ASSUME PageTypeOK, NEW p \in Page, PageStep(p)
  PROVE  PageTypeOK'
<1>0. UNCHANGED vars => TypeOK'
  BY HostSame DEF PageTypeOK
<1>1. CASE Load(p)
  <2>1. posts' \subseteq Post
    BY <1>1, AgedType DEF Load, PageTypeOK
  <2> QED
    BY <1>0, <1>1, <2>1, ReloadTypes DEF Load, Reload, PageTypeOK
<1>2. ASSUME NEW id \in IDs, sendSensorRemovalReq(p, id) PROVE PageTypeOK'
  <2>1. posts' \subseteq Post
    BY <1>2, AgedType, RemovalType DEF sendSensorRemovalReq, PageTypeOK
  <2> QED
    BY <1>0, <1>2, <2>1, ReloadTypes DEF sendSensorRemovalReq, Reload, PageTypeOK
<1>3. ASSUME NEW id \in IDs, NEW name \in UserName \cup {NoName},
             Rename(p, id, name)
      PROVE  PageTypeOK'
  <2> DEFINE f == page[p].rows
             g == [f EXCEPT ![id] = name]
  <2>1. page[p] \in Shown /\ f \in SensorMap /\ id \in DOMAIN f
    BY <1>3 DEF Rename, PageTypeOK, Shown
  <2>2. DOMAIN f \in SUBSET IDs /\ f \in [DOMAIN f -> Name] /\ name \in Name
    BY <2>1, SensorMapDomain DEF Name
  <2>3. g \in [DOMAIN f -> Name]
    BY <2>2
  <2>4. g \in SensorMap
    BY <2>2, <2>3, SensorMapForm
  <2>5. [page[p] EXCEPT !.rows = g, !.edited = @ \cup {id}] \in Shown
    BY <2>1, <2>4 DEF Shown
  <2>6. page' = [page EXCEPT ![p] = [page[p] EXCEPT !.rows = g,
                                                    !.edited = @ \cup {id}]]
    BY <1>3, <2>1 DEF Rename, PageTypeOK, Shown
  <2>7. page' \in [Page -> Shown]
    BY <2>5, <2>6 DEF PageTypeOK
  <2> QED
    BY <1>0, <1>3, <2>7 DEF Rename, connections, PageTypeOK
<1>4. CASE sendSensorsMapping(p)
  <2>1. Table(p) \in Post
    <3>1. page[p] \in Shown
      BY DEF PageTypeOK
    <3> QED
      BY <3>1 DEF Table, Post, Shown
  <2> QED
    BY <1>0, <1>4, <2>1 DEF sendSensorsMapping, Send, PageTypeOK
<1>5. ASSUME NEW url \in {"setProperties", "setCredentials"}, SendFields(p, url)
      PROVE  PageTypeOK'
  <2>1. OtherPost(p, url) \in Post
    BY NoRows DEF OtherPost, Post
  <2> QED
    BY <1>0, <1>5, <2>1 DEF SendFields, Send, PageTypeOK
<1>6. CASE LoseFetch(p)
  BY <1>0, <1>6 DEF LoseFetch, PageTypeOK
<1>7. CASE configuration(p)
  <2>1. [page |-> p, null |-> m_jsonData.null,
         sensors |-> m_jsonData.sensors, fresh |-> TRUE] \in Answer
    BY DEF Answer, PageTypeOK, TypeOK, Conf
  <2> QED
    BY <1>0, <1>7, <2>1 DEF configuration, PageTypeOK
<1> QED
  BY <1>1, <1>2, <1>3, <1>4, <1>5, <1>6, <1>7 DEF PageStep

LEMMA FetchTypeOK ==
  ASSUME PageTypeOK, NEW a \in answers, fetchConfiguration(a)
  PROVE  PageTypeOK'
<1> DEFINE D == DOMAIN a.sensors
           f == [id \in D |-> InnerText(a.sensors[id])]
           e == {id \in DOMAIN f : f[id] = NoName}
<1>1. a \in Answer /\ a.sensors \in SensorMap /\ a.page \in Page
  BY DEF PageTypeOK, Answer
<1>2. D \in SUBSET IDs /\ a.sensors \in [D -> Name]
  BY <1>1, SensorMapDomain
<1>3. f \in [D -> Name]
  BY <1>2 DEF InnerText, Name
<1>4. f \in SensorMap /\ e \in SUBSET IDs
  BY <1>2, <1>3, SensorMapForm
<1>5. [rows |-> f, edited |-> e, fresh |-> a.fresh] \in Shown
  BY <1>1, <1>4 DEF Shown, Answer
<1>6. page' = page \/ page' = [page EXCEPT ![a.page] =
                       [rows |-> f, edited |-> e, fresh |-> a.fresh]]
  BY DEF fetchConfiguration
<1>7. page' \in [Page -> Shown]
  BY <1>1, <1>5, <1>6 DEF PageTypeOK
<1>8. TypeOK'
  BY HostSame DEF fetchConfiguration, PageTypeOK
<1> QED
  BY <1>7, <1>8 DEF fetchConfiguration, PageTypeOK

\* A start leaves a loaded document and idle tasks.
LEMMA StartTypeOK == ASSUME TypeOK, Start, UNCHANGED app PROVE TypeOK'
<1>1. m_jsonData' \in Conf /\ file' \in File
  BY DefaultType, ConfTypes DEF TypeOK, Start
<1>2. /\ pc' \in [Task -> Step]
      /\ sensor' \in [Task -> [identifier : IDs \cup {NoName}, name : Name]]
      /\ data' \in [Task -> File]
      /\ return' \in [Task -> {"idle", "item", "answer", "restart"}]
      /\ \A t \in Task : pc'[t] = "idle"
  BY IdleTypes DEF Start
<1> QED
  BY <1>1, <1>2, IdleTypes DEF Start, app, TypeOK

\* The requests that the host handles.
Request(r) ==
  \/ updateSensorsMappingReq(r) \/ removeSensorReq(r)
  \/ setPropertiesReq(r) \/ setCredentialsReq(r)

\* Whatever the host does but start again is a step of HostTasks.
LEMMA HostStep ==
  ASSUME PageTypeOK
  PROVE  /\ TaskStep => Next
         /\ NextRow \/ InsertRow \/ Answered => Next
         /\ \A r \in posts : Request(r) => Next
<1>1. TaskStep => Next
  BY DEF TaskStep, Next, Loop, Add, Save, Adder
<1>2. NextRow \/ InsertRow \/ Answered => Next
  BY DEF NextRow, InsertRow, Answered, Next, Web, Add, Adder
<1>3. ASSUME NEW r \in posts, Request(r)
      PROVE  Next
  <2>1. r \in Post /\ r.rows \in SensorMap /\ DOMAIN r.rows \subseteq IDs
    BY SensorMapDomain DEF PageTypeOK, Post
  <2>2. CASE updateSensorsMappingReq(r)
    BY <2>1, <2>2, AdminAssumption DEF updateSensorsMappingReq, Next, Web
  <2>3. CASE removeSensorReq(r)
    BY <2>1, <2>3 DEF removeSensorReq, Next, Web
  <2>4. CASE setPropertiesReq(r)
    <3>1. PICK number \in Number : setProperties(number % Uint16)
      BY <2>4 DEF setPropertiesReq
    <3>2. number % Uint16 \in Period
      BY AdminAssumption
    <3> HIDE DEF Uint16
    <3> QED
      BY <3>1, <3>2 DEF Next, Web
  <2>5. CASE setCredentialsReq(r)
    BY <2>5 DEF setCredentialsReq, Next, Web
  <2> QED
    BY <1>3, <2>2, <2>3, <2>4, <2>5 DEF Request
<1> QED
  BY <1>1, <1>2, <1>3

\* The steps of the host keep types.
LEMMA HostTypeOK ==
  ASSUME PageTypeOK
  PROVE  /\ TaskStep \/ NextRow \/ InsertRow \/ Answered \/ Reboot => PageTypeOK'
         /\ \A r \in posts : Request(r) \/ LosePost(r) => PageTypeOK'
<1> USE DEF connections, pageVars
<1>0. /\ TypeOK /\ (Next => TypeOK') /\ (Start /\ UNCHANGED app => TypeOK')
      /\ posts \in SUBSET posts /\ {} \in SUBSET posts
  BY NextTypeOK, StartTypeOK DEF PageTypeOK
<1>1. CASE TaskStep
  <2>1. work' \in Post \cup {NoWork}
    BY <1>1 DEF TaskStep, PageTypeOK, Post
  <2>2. /\ page' \in [Page -> Shown] /\ posts' \subseteq Post
        /\ answers' \subseteq Answer
    BY <1>0, <1>1, ChangedTypes DEF TaskStep
  <2>3. TypeOK' /\ asked' = asked
    BY <1>0, <1>1, HostStep DEF TaskStep
  <2> QED
    BY <2>1, <2>2, <2>3 DEF PageTypeOK
<1>2. CASE InsertRow
  <2>1. /\ page' \in [Page -> Shown] /\ posts' \subseteq Post
        /\ answers' \subseteq Answer
    BY <1>0, <1>2, ChangedTypes DEF InsertRow
  <2>2. TypeOK' /\ asked' = asked /\ work' = work
    BY <1>0, <1>2, HostStep DEF InsertRow
  <2> QED
    BY <2>1, <2>2 DEF PageTypeOK
<1>3. CASE NextRow \/ Answered
  <2>1. TypeOK'
    BY <1>0, <1>3, HostStep
  <2> QED
    BY <1>3, <2>1 DEF NextRow, Answered, PageTypeOK
<1>4. CASE Reboot
  <2>1. /\ page' \in [Page -> Shown] /\ posts' \subseteq Post
        /\ answers' \subseteq Answer
    BY <1>0, <1>4, ChangedTypes DEF Reboot
  <2> QED
    BY <1>0, <1>4, <2>1 DEF Reboot, PageTypeOK
<1>5. ASSUME NEW r \in posts, Request(r)
      PROVE  PageTypeOK'
  <2>1. TypeOK'
    BY <1>0, <1>5, HostStep
  <2>2. CASE removeSensorReq(r)
    <3>1. posts \ {r} \in SUBSET posts
      OBVIOUS
    <3>2. /\ page' \in [Page -> Shown] /\ posts' \subseteq Post
          /\ answers' \subseteq Answer
      BY <2>2, <3>1, ChangedTypes DEF removeSensorReq
    <3> QED
      BY <2>1, <2>2, <3>2 DEF removeSensorReq, PageTypeOK
  <2>3. CASE ~removeSensorReq(r)
    BY <1>5, <2>1, <2>3
       DEF Request, updateSensorsMappingReq, setPropertiesReq, setCredentialsReq,
           PageTypeOK
  <2> QED
    BY <2>2, <2>3
<1>6. ASSUME NEW r \in posts, LosePost(r)
      PROVE  PageTypeOK'
  <2>1. TypeOK'
    BY <1>0, <1>6, HostSame DEF LosePost
  <2> QED
    BY <1>6, <2>1 DEF LosePost, PageTypeOK
<1> QED
  BY <1>1, <1>2, <1>3, <1>4, <1>5, <1>6

----------------------------------------------------------------------------
\* What is up to date.

\* Marking leaves all but the mark as it was.
LEMMA OutdatedForm ==
  ASSUME PageTypeOK, NEW by, NEW rest \in SUBSET posts
  PROVE  /\ \A p \in Page :
               LET new == OutdatedPages(by)[p] IN
               /\ new.rows = page[p].rows /\ new.edited = page[p].edited
               /\ new.fresh => /\ page[p].fresh
                               /\ Unchanged \/ Follows(page[p], p, FALSE, by)
         /\ \A new \in OutdatedPosts(rest, by) : \E r \in rest :
               /\ new.url = r.url /\ new.rows = r.rows
               /\ new.edited = r.edited /\ new.old = r.old
               /\ new.fresh => r.fresh /\ (Unchanged \/ Follows(r, r.page, r.old, by))
         /\ \A new \in OutdatedAnswers : \E a \in answers :
               new.sensors = a.sensors /\ (new.fresh => a.fresh /\ Unchanged)
<1>1. ASSUME NEW p \in Page
      PROVE  LET new == OutdatedPages(by)[p] IN
             /\ new.rows = page[p].rows /\ new.edited = page[p].edited
             /\ new.fresh => /\ page[p].fresh
                             /\ Unchanged \/ Follows(page[p], p, FALSE, by)
  <2>1. page[p] \in Shown
    BY DEF PageTypeOK
  <2>2. OutdatedPages(by)[p] = [page[p] EXCEPT !.fresh =
           page[p].fresh /\ (Unchanged \/ Follows(page[p], p, FALSE, by))]
    BY DEF OutdatedPages
  <2> QED
    BY <2>1, <2>2 DEF Shown
<1>2. ASSUME NEW new \in OutdatedPosts(rest, by)
      PROVE  \E r \in rest :
               /\ new.url = r.url /\ new.rows = r.rows
               /\ new.edited = r.edited /\ new.old = r.old
               /\ new.fresh => r.fresh /\ (Unchanged \/ Follows(r, r.page, r.old, by))
  <2>1. PICK r \in rest : new = [r EXCEPT !.fresh =
           r.fresh /\ (Unchanged \/ Follows(r, r.page, r.old, by))]
    BY DEF OutdatedPosts
  <2>2. r \in Post
    BY DEF PageTypeOK
  <2> QED
    BY <2>1, <2>2 DEF Post
<1>3. ASSUME NEW new \in OutdatedAnswers
      PROVE  \E a \in answers :
               new.sensors = a.sensors /\ (new.fresh => a.fresh /\ Unchanged)
  <2>1. PICK a \in answers : new = [a EXCEPT !.fresh = a.fresh /\ Unchanged]
    BY DEF OutdatedAnswers
  <2>2. a \in Answer
    BY DEF PageTypeOK
  <2> QED
    BY <2>1, <2>2 DEF Answer
<1> QED
  BY <1>1, <1>2, <1>3

LEMMA OutdatedPage ==
  ASSUME PageTypeOK, NEW by, NEW p \in Page, NEW new, new = OutdatedPages(by)[p]
  PROVE  /\ new.rows = page[p].rows /\ new.edited = page[p].edited
         /\ new.fresh => /\ page[p].fresh
                         /\ Unchanged \/ Follows(page[p], p, FALSE, by)
<1>1. posts \in SUBSET posts
  OBVIOUS
<1> QED
  BY <1>1, OutdatedForm, ZenonT(60)

LEMMA OutdatedPost ==
  ASSUME PageTypeOK, NEW by, NEW rest \in SUBSET posts,
         NEW new \in OutdatedPosts(rest, by)
  PROVE  \E r \in rest :
            /\ new.url = r.url /\ new.rows = r.rows
            /\ new.edited = r.edited /\ new.old = r.old
            /\ new.fresh => r.fresh /\ (Unchanged \/ Follows(r, r.page, r.old, by))
  BY OutdatedForm, ZenonT(60)

\* What does not change stays harmless.
LEMMA HarmlessSame ==
  ASSUME Unchanged, NEW rows, NEW edited, Harmless(m_jsonData, rows, edited)
  PROVE  Harmless(m_jsonData', rows, edited)
  BY DEF Unchanged, Harmless

\* What a change for by does to rows that are still marked as up to date after it.
Carried(by) ==
  \A rows, edited :
     /\ Harmless(m_jsonData, rows, edited)
     /\ Unchanged \/ (by # NoWork /\ by.fresh /\ ~by.old /\ by.edited \subseteq edited)
     => Harmless(m_jsonData', rows, edited)

\* A change that carries what it leaves marked leaves everything up to date.
LEMMA ChangedUpToDate ==
  ASSUME PageTypeOK, UpToDate, NEW by, NEW rest \in SUBSET posts,
         Changed(rest, by), Carried(by)
  PROVE  UpToDate'
<1>1. FreshPages'
  <2>1. ASSUME NEW p \in Page, page'[p].fresh
        PROVE  Harmless(m_jsonData', page'[p].rows, page'[p].edited)
    <3>1. page' = OutdatedPages(by)
      BY DEF Changed
    <3>2. /\ page'[p].rows = page[p].rows /\ page'[p].edited = page[p].edited
          /\ page[p].fresh /\ (Unchanged \/ Follows(page[p], p, FALSE, by))
      BY <2>1, <3>1, OutdatedPage, ZenonT(60)
    <3>3. Harmless(m_jsonData, page[p].rows, page[p].edited)
      BY <3>2 DEF UpToDate, FreshPages
    <3> QED
      BY <3>2, <3>3 DEF Carried, Follows
  <2> QED
    BY <2>1 DEF FreshPages
<1>2. FreshAnswers'
  <2>1. ASSUME NEW a \in answers', a.fresh
        PROVE  a.sensors = m_jsonData'.sensors
    <3>1. PICK b \in answers : a.sensors = b.sensors /\ b.fresh /\ Unchanged
      BY <2>1, OutdatedForm DEF Changed
    <3> QED
      BY <3>1 DEF UpToDate, FreshAnswers, Unchanged
  <2> QED
    BY <2>1 DEF FreshAnswers
<1>3. ASSUME NEW r \in posts'
      PROVE  /\ r.fresh /\ r.url = "updateSensorsMapping" =>
                  Harmless(m_jsonData', r.rows, r.edited)
             /\ r.url = "removeSensor" => r.old
  <2>1. posts' = OutdatedPosts(rest, by)
    BY DEF Changed
  <2>2. PICK b \in rest :
           /\ r.url = b.url /\ r.rows = b.rows
           /\ r.edited = b.edited /\ r.old = b.old
           /\ r.fresh => b.fresh /\ (Unchanged \/ Follows(b, b.page, b.old, by))
    BY <1>3, <2>1, OutdatedPost
  <2>3. r.url = "removeSensor" => r.old
    BY <2>2 DEF UpToDate, OldRemovals
  <2>4. ASSUME r.fresh, r.url = "updateSensorsMapping"
        PROVE  Harmless(m_jsonData', r.rows, r.edited)
    <3>1. Harmless(m_jsonData, b.rows, b.edited)
      BY <2>2, <2>4 DEF UpToDate, FreshPosts
    <3> QED
      BY <2>2, <2>4, <3>1 DEF Carried, Follows
  <2> QED
    BY <2>3, <2>4
<1> QED
  BY <1>1, <1>2, <1>3 DEF UpToDate, FreshPosts, OldRemovals

\* A change that is nobody's, or a removal's, carries only what it leaves as it is.
LEMMA CarriedByOthers ==
  ASSUME NEW by, by = NoWork \/ by.old
  PROVE  Carried(by)
  BY HarmlessSame DEF Carried

\* The row of a table that is up to date is a sensor's, and it is edited or does
\* not change the document.
LEMMA RowInHand ==
  ASSUME IInv, InsertRow, work.fresh
  PROVE  /\ sensor["web"].identifier \in DOMAIN m_jsonData.sensors
         /\ sensor["web"].identifier \in work.edited \/ Unchanged
<1> DEFINE id == sensor["web"].identifier
<1>1. /\ pc["web"] = "insert"
      /\ m_jsonData' = withSensor(m_jsonData, id, sensor["web"].name)
  BY DEF InsertRow, Insert
<1>2. /\ return["web"] = "item" /\ id \in DOMAIN sensorsMapping
      /\ sensorsMapping[id] # NoName => sensor["web"].name = sensorsMapping[id]
  BY <1>1 DEF IInv, TableInHand, Adding
<1>3. sensorsMapping = work.rows /\ Harmless(m_jsonData, work.rows, work.edited)
  BY <1>2 DEF IInv, TableInHand, FreshWork, Handling
<1>4. id \in DOMAIN m_jsonData.sensors
  BY <1>2, <1>3 DEF Harmless
<1>5. CASE id \notin work.edited
  <2>1. sensor["web"].name = m_jsonData.sensors[id]
    BY <1>2, <1>3, <1>5 DEF Harmless
  <2>2. m_jsonData \in Conf
    BY DEF IInv, PageTypeOK, TypeOK
  <2>3. m_jsonData.sensors \in [DOMAIN m_jsonData.sensors -> Name]
    BY <2>2, SensorMapDomain DEF Conf
  <2>4. m_jsonData'.sensors =
          [i \in DOMAIN m_jsonData.sensors \cup {id} |->
             IF i = id THEN sensor["web"].name ELSE m_jsonData.sensors[i]]
    BY <1>1, <2>2 DEF withSensor, Conf
  <2> QED
    BY <1>4, <2>1, <2>3, <2>4 DEF Unchanged
<1> QED
  BY <1>4, <1>5

\* So the insertion of a row carries what followed it.
LEMMA CarriedByRow ==
  ASSUME IInv, InsertRow
  PROVE  Carried(work)
<1> DEFINE id == sensor["web"].identifier
<1>1. ASSUME NEW rows, NEW edited, Harmless(m_jsonData, rows, edited),
             work.fresh, work.edited \subseteq edited
      PROVE  Harmless(m_jsonData', rows, edited)
  <2>1. CASE Unchanged
    BY <1>1, <2>1, HarmlessSame
  <2>2. CASE id \in work.edited
    <3>1. m_jsonData \in Conf
      BY DEF IInv, PageTypeOK, TypeOK
    <3>2. m_jsonData'.sensors =
            [i \in DOMAIN m_jsonData.sensors \cup {id} |->
               IF i = id THEN sensor["web"].name ELSE m_jsonData.sensors[i]]
      BY <3>1 DEF InsertRow, Insert, withSensor, Conf
    <3> QED
      BY <1>1, <2>2, <3>2 DEF Harmless
  <2> QED
    BY <1>1, <2>1, <2>2, RowInHand
<1> QED
  BY <1>1, HarmlessSame DEF Carried

\* Steps that leave the document and what shows it as it was, but for posts.
LEMMA QuietUpToDate ==
  ASSUME UpToDate, m_jsonData'.sensors = m_jsonData.sensors, page' = page,
         answers' \subseteq answers, posts' \subseteq posts
  PROVE  UpToDate'
<1>1. FreshPages' /\ FreshAnswers'
  BY DEF UpToDate, FreshPages, FreshAnswers, Harmless
<1>2. FreshPosts' /\ OldRemovals'
  BY DEF UpToDate, FreshPosts, OldRemovals, Harmless
<1> QED
  BY <1>1, <1>2 DEF UpToDate

\* The host keeps what it shows and is posted up to date.
LEMMA HostUpToDate ==
  ASSUME IInv
  PROVE  /\ TaskStep \/ NextRow \/ InsertRow \/ Answered \/ Reboot => UpToDate'
         /\ \A r \in posts : Request(r) \/ LosePost(r) => UpToDate'
<1> USE DEF connections, pageVars, stored
<1>0. /\ PageTypeOK /\ UpToDate /\ m_jsonData \in Conf
      /\ posts \in SUBSET posts /\ {} \in SUBSET posts
  BY DEF IInv, PageTypeOK, TypeOK
<1>1. CASE TaskStep
  BY <1>0, <1>1, CarriedByOthers, ChangedUpToDate DEF TaskStep
<1>2. CASE InsertRow
  BY <1>0, <1>2, CarriedByRow, ChangedUpToDate DEF InsertRow
<1>3. CASE Reboot
  BY <1>0, <1>3, CarriedByOthers, ChangedUpToDate DEF Reboot
<1>4. CASE NextRow \/ Answered
  <2>1. m_jsonData' = m_jsonData /\ page' = page /\ answers' = answers /\ posts' = posts
    BY <1>4 DEF NextRow, LastItem, NextItem, Answered, SendOK
  <2> QED
    BY <1>0, <2>1, QuietUpToDate
<1>5. ASSUME NEW r \in posts, removeSensorReq(r) PROVE UpToDate'
  <2>1. r.old
    BY <1>0, <1>5 DEF removeSensorReq, UpToDate, OldRemovals
  <2>2. posts \ {r} \in SUBSET posts /\ Carried(r)
    BY <2>1, CarriedByOthers
  <2> QED
    BY <1>0, <1>5, <2>2, ChangedUpToDate DEF removeSensorReq
<1>6. ASSUME NEW r \in posts, setPropertiesReq(r) \/ setCredentialsReq(r)
      PROVE  UpToDate'
  <2>1. m_jsonData'.sensors = m_jsonData.sensors
    <3> HIDE DEF Uint16
    <3> QED
      BY <1>0, <1>6 DEF setPropertiesReq, setCredentialsReq, setProperties,
           setCredentials, ChangeAndSave, Conf, setSensorUpdatePeriodMins,
           setAdminCredentials
  <2>2. page' = page /\ answers' = answers /\ posts' \subseteq posts
    BY <1>6 DEF setPropertiesReq, setCredentialsReq
  <2> QED
    BY <1>0, <2>1, <2>2, QuietUpToDate
<1>7. ASSUME NEW r \in posts, updateSensorsMappingReq(r) \/ LosePost(r)
      PROVE  UpToDate'
  <2>1. /\ m_jsonData' = m_jsonData /\ page' = page
        /\ answers' = answers /\ posts' \subseteq posts
    BY <1>7 DEF updateSensorsMappingReq, updateSensorsMapping, LosePost, vars
  <2> QED
    BY <1>0, <2>1, QuietUpToDate
<1> QED
  BY <1>1, <1>2, <1>3, <1>4, <1>5, <1>6, <1>7 DEF Request

\* Loading a page leaves it empty and its posts old.
LEMMA LoadUpToDate ==
  ASSUME PageTypeOK, UpToDate, NEW p \in Page, Reload(p),
         NEW more \in SUBSET Post, \A r \in more : r.page = p /\ r.url = "removeSensor",
         posts' = {Aged(p, r) : r \in posts \cup more}
  PROVE  UpToDate'
<1>1. m_jsonData' = m_jsonData
  BY DEF Reload, vars, stored
<1>2. FreshPages' /\ FreshAnswers'
  BY <1>1 DEF FreshPages, FreshAnswers, UpToDate, Reload, AdminHtml, PageTypeOK
<1>3. ASSUME NEW r \in posts'
      PROVE  /\ r.fresh /\ r.url = "updateSensorsMapping" =>
                  Harmless(m_jsonData', r.rows, r.edited)
             /\ r.url = "removeSensor" => r.old
  <2>1. PICK b \in posts \cup more :
                /\ b \in Post /\ r = Aged(p, b)
                /\ b \in more => b.page = p /\ b.url = "removeSensor"
                /\ b \notin more => b \in posts
    BY DEF PageTypeOK
  <2>2. /\ r.url = b.url /\ r.rows = b.rows /\ r.edited = b.edited
        /\ r.fresh = b.fresh /\ (b.old \/ b.page = p => r.old)
    BY <2>1, AgedType
  <2>3. r.fresh /\ r.url = "updateSensorsMapping" =>
          Harmless(m_jsonData, r.rows, r.edited)
    BY <2>1, <2>2, ZenonT(60) DEF UpToDate, FreshPosts, Harmless
  <2>4. r.url = "removeSensor" => r.old
    BY <2>1, <2>2 DEF UpToDate, OldRemovals
  <2> QED
    BY <1>1, <2>3, <2>4
<1> QED
  BY <1>2, <1>3 DEF UpToDate, FreshPosts, OldRemovals

\* The steps of a page keep it, and what it posts, up to date.
LEMMA PageUpToDate ==
  ASSUME PageTypeOK, UpToDate, NEW p \in Page, PageStep(p)
  PROVE  UpToDate'
<1> USE DEF connections, pageVars
<1>0. UNCHANGED vars => m_jsonData' = m_jsonData
  BY DEF vars, stored
<1>1. CASE Load(p)
  <2>1. posts' = {Aged(p, r) : r \in posts \cup {}} /\ {} \in SUBSET Post
    BY <1>1 DEF Load
  <2>2. Reload(p)
    BY <1>1 DEF Load
  <2> QED
    BY <2>1, <2>2, LoadUpToDate
<1>2. ASSUME NEW id \in IDs, sendSensorRemovalReq(p, id) PROVE UpToDate'
  <2>1. /\ {Removal(p, id)} \in SUBSET Post
        /\ \A r \in {Removal(p, id)} : r.page = p /\ r.url = "removeSensor"
    BY RemovalType
  <2>2. /\ Reload(p)
        /\ posts' = {Aged(p, r) : r \in posts \cup {Removal(p, id)}}
    BY <1>2 DEF sendSensorRemovalReq
  <2> QED
    BY <2>1, <2>2, LoadUpToDate
<1>3. ASSUME NEW id \in IDs, NEW name \in UserName \cup {NoName},
             Rename(p, id, name)
      PROVE  UpToDate'
  <2>1. page \in [Page -> Shown] /\ page[p] \in Shown
    BY DEF PageTypeOK
  <2>2. page' = [page EXCEPT ![p] =
                   [page[p] EXCEPT !.rows = [page[p].rows EXCEPT ![id] = name],
                                   !.edited = page[p].edited \cup {id}]]
    BY <1>3, <2>1 DEF Rename, Shown
  <2>3. /\ page'[p].rows = [page[p].rows EXCEPT ![id] = name]
        /\ page'[p].edited = page[p].edited \cup {id}
        /\ page'[p].fresh = page[p].fresh
        /\ \A q \in Page : q # p => page'[q] = page[q]
    BY <2>1, <2>2 DEF Shown
  <2>4. Harmless(m_jsonData, page[p].rows, page[p].edited)
          => Harmless(m_jsonData, page'[p].rows, page'[p].edited)
    BY <2>3 DEF Harmless
  <2>5. m_jsonData' = m_jsonData
    BY <1>0, <1>3 DEF Rename
  <2>6. FreshPages'
    BY <2>3, <2>4, <2>5 DEF FreshPages, UpToDate
  <2> QED
    BY <1>3, <2>5, <2>6 DEF Rename, UpToDate, FreshAnswers, FreshPosts, OldRemovals
<1>4. CASE sendSensorsMapping(p)
  <2>1. Table(p).fresh => Harmless(m_jsonData, Table(p).rows, Table(p).edited)
    BY DEF Table, UpToDate, FreshPages
  <2>2. Table(p).url = "updateSensorsMapping"
    BY DEF Table
  <2>3. posts' = posts \cup {Table(p)} /\ m_jsonData' = m_jsonData
    BY <1>0, <1>4 DEF sendSensorsMapping, Send
  <2>4. FreshPosts' /\ OldRemovals'
    BY <2>1, <2>2, <2>3 DEF UpToDate, FreshPosts, OldRemovals
  <2> QED
    BY <1>4, <2>3, <2>4 DEF sendSensorsMapping, Send, UpToDate, FreshPages, FreshAnswers
<1>5. ASSUME NEW url \in {"setProperties", "setCredentials"}, SendFields(p, url)
      PROVE  UpToDate'
  <2>1. OtherPost(p, url).url = url
    BY DEF OtherPost
  <2>2. posts' = posts \cup {OtherPost(p, url)} /\ m_jsonData' = m_jsonData
    BY <1>0, <1>5 DEF SendFields, Send
  <2>3. FreshPosts' /\ OldRemovals'
    BY <2>1, <2>2 DEF UpToDate, FreshPosts, OldRemovals
  <2> QED
    BY <1>5, <2>2, <2>3 DEF SendFields, Send, UpToDate, FreshPages, FreshAnswers
<1>6. CASE LoseFetch(p)
  BY <1>0, <1>6, QuietUpToDate DEF LoseFetch
<1>7. CASE configuration(p)
  <2>1. FreshAnswers' /\ m_jsonData' = m_jsonData
    BY <1>0, <1>7 DEF configuration, UpToDate, FreshAnswers
  <2> QED
    BY <1>7, <2>1 DEF configuration, UpToDate, FreshPages, FreshPosts, OldRemovals
<1> QED
  BY <1>1, <1>2, <1>3, <1>4, <1>5, <1>6, <1>7 DEF PageStep

\* A page that is filled agrees with the answer, but for names that come back empty.
LEMMA FetchUpToDate ==
  ASSUME PageTypeOK, UpToDate, NEW a \in answers, fetchConfiguration(a)
  PROVE  UpToDate'
<1> DEFINE names == [id \in DOMAIN a.sensors |-> InnerText(a.sensors[id])]
           new == [rows   |-> names,
                   edited |-> {id \in DOMAIN names : names[id] = NoName},
                   fresh  |-> a.fresh]
<1>1. a.fresh => Harmless(m_jsonData, new.rows, new.edited)
  BY DEF UpToDate, FreshAnswers, Harmless, InnerText
<1>2. \A q \in Page : page'[q] = page[q] \/ page'[q] = new
  BY DEF fetchConfiguration, PageTypeOK
<1>3. m_jsonData' = m_jsonData /\ new.fresh = a.fresh
  BY DEF fetchConfiguration, vars, stored
<1> HIDE DEF new
<1>4. FreshPages'
  BY <1>1, <1>2, <1>3 DEF FreshPages, UpToDate
<1> QED
  BY <1>3, <1>4 DEF fetchConfiguration, UpToDate, FreshAnswers, FreshPosts, OldRemovals

----------------------------------------------------------------------------
\* The table in hand.

\* The web task goes on with its table, or with a row of it.
LEMMA TableKept ==
  ASSUME IInv, sensorsMapping' = sensorsMapping,
         work # NoWork => /\ work' # NoWork
                          /\ work'.rows = work.rows /\ work'.edited = work.edited
                          /\ work'.fresh => work.fresh,
         Handling' => Handling,
         return'["web"] = "item" => /\ return["web"] = "item"
                                    /\ pc'["web"] \in Adding \cup {"dump", "close"},
         pc'["web"] \in Adding =>
           /\ pc["web"] \in Adding
           /\ return'["web"] = return["web"]
           /\ sensor'["web"].identifier = sensor["web"].identifier
           /\ sensor["web"].name # NoName => sensor'["web"].name = sensor["web"].name,
         work'.fresh /\ work # NoWork /\ Harmless(m_jsonData, work.rows, work.edited)
           => Harmless(m_jsonData', work.rows, work.edited)
  PROVE  TableInHand' /\ FreshWork'
<1>1. TableInHand'
  BY DEF IInv, TableInHand, Handling
<1>2. FreshWork'
  <2> SUFFICES ASSUME Handling', work'.fresh
               PROVE  Harmless(m_jsonData', work'.rows, work'.edited)
    BY DEF FreshWork
  <2>1. Handling /\ work # NoWork
    BY DEF IInv, TableInHand
  <2>2. Harmless(m_jsonData, work.rows, work.edited)
    BY <2>1 DEF IInv, FreshWork
  <2> QED
    BY <2>1, <2>2
<1> QED
  BY <1>1, <1>2

\* The web task has no table in hand.
LEMMA NoTable ==
  ASSUME pc'["web"] \notin Adding \cup {"item"}, return'["web"] # "item"
  PROVE  TableInHand' /\ FreshWork'
  BY DEF TableInHand, FreshWork, Handling

\* Steps of the host, as the web task sees them.
LEMMA WebSees ==
  ASSUME PageTypeOK, TaskStep
  PROVE  /\ sensorsMapping' = sensorsMapping
         /\ \/ UNCHANGED <<pc["web"], return["web"], sensor["web"]>>
            \/ ChooseName("web") \/ CheckSpace("web") \/ Dump("web") \/ Close("web")
<1> USE DEF Goto, SaveThen, request, Task, Adder
<1>1. TypeOK
  BY DEF PageTypeOK
<1>2. CASE Radio
  BY <1>1, <1>2 DEF Radio, PairRequest, IsPaired, HasSpace, SendPairOK, TypeOK
<1>3. CASE FactoryReset
  BY <1>1, <1>3 DEF FactoryReset, TypeOK
<1>4. CASE Insert("radio")
  BY <1>1, <1>4 DEF Insert, TypeOK
<1>5. ASSUME NEW t \in Adder, ChooseName(t) \/ CheckSpace(t)
      PROVE  /\ sensorsMapping' = sensorsMapping
             /\ t # "web" => UNCHANGED <<pc["web"], return["web"], sensor["web"]>>
  BY <1>1, <1>5 DEF ChooseName, CheckSpace, TypeOK
<1>6. ASSUME NEW t \in Task, Dump(t) \/ Close(t)
      PROVE  /\ sensorsMapping' = sensorsMapping
             /\ t # "web" => UNCHANGED <<pc["web"], return["web"], sensor["web"]>>
  BY <1>1, <1>6 DEF Dump, Close, TypeOK
<1> QED
  BY <1>2, <1>3, <1>4, <1>5, <1>6 DEF TaskStep

LEMMA TaskTable == ASSUME IInv, TaskStep PROVE TableInHand' /\ FreshWork'
<1> USE DEF Goto, SaveThen
<1>1. /\ PageTypeOK /\ TypeOK /\ "web" \in Task
      /\ pc \in [Task -> Step] /\ DOMAIN return = Task /\ DOMAIN sensor = Task
  BY DEF IInv, PageTypeOK, TypeOK, Task
<1>2. /\ work # NoWork => /\ work' # NoWork
                          /\ work'.rows = work.rows /\ work'.edited = work.edited
                          /\ work'.fresh => work.fresh /\ Unchanged
      /\ sensorsMapping' = sensorsMapping
  <2>1. work # NoWork => work \in Post /\ work' = [work EXCEPT !.fresh = @ /\ Unchanged]
    BY <1>1 DEF TaskStep, PageTypeOK
  <2>2. work # NoWork => work' \in Post
    BY <2>1 DEF Post
  <2> QED
    BY <1>1, <2>1, <2>2, WebSees, NoWorkAssumption DEF Post
<1>3. work'.fresh /\ work # NoWork /\ Harmless(m_jsonData, work.rows, work.edited)
        => Harmless(m_jsonData', work.rows, work.edited)
  BY <1>2, HarmlessSame
<1>4. Handling => work # NoWork
  BY DEF IInv, TableInHand
\* From here on each case says what becomes of pc, return and sensor.
<1>5. CASE UNCHANGED <<pc["web"], return["web"], sensor["web"]>>
  BY <1>2, <1>3, <1>4, <1>5, TableKept DEF Handling, IInv, TableInHand
<1>6. CASE ChooseName("web")
  <2>1. /\ pc["web"] = "naming" /\ pc'["web"] = "space" /\ return' = return
        /\ sensor'["web"].identifier = sensor["web"].identifier
        /\ sensor'["web"].name = newSensorName(m_jsonData, sensor["web"].name)
    BY <1>1, <1>6 DEF ChooseName, TypeOK
  <2>2. sensor["web"].name # NoName => sensor'["web"].name = sensor["web"].name
    BY <2>1 DEF newSensorName
  <2> QED
    BY <1>2, <1>3, <1>4, <2>1, <2>2, TableKept DEF Handling, Adding, IInv, TableInHand
<1>7. CASE CheckSpace("web")
  <2>1. /\ pc["web"] = "space" /\ pc'["web"] \in {"insert", "dump"}
        /\ UNCHANGED <<return, sensor>>
    BY <1>1, <1>7 DEF CheckSpace
  <2> QED
    BY <1>2, <1>3, <1>4, <2>1, TableKept DEF Handling, Adding, IInv, TableInHand
<1>8. CASE Dump("web")
  <2>1. pc["web"] = "dump" /\ pc'["web"] = "close" /\ return' = return
    BY <1>1, <1>8 DEF Dump
  <2> QED
    BY <1>2, <1>3, <1>4, <2>1, TableKept DEF Handling, Adding, IInv, TableInHand
<1>9. CASE Close("web")
  <2>1. pc'["web"] = return["web"] /\ return'["web"] = "idle"
    BY <1>1, <1>9 DEF Close
  <2>2. return["web"] \in {"idle", "item", "answer", "restart"}
    BY <1>1 DEF TypeOK
  <2> QED
    BY <1>2, <1>3, <1>4, <2>1, <2>2, TableKept DEF Handling, Adding, IInv, TableInHand
<1> QED
  BY <1>1, <1>5, <1>6, <1>7, <1>8, <1>9, WebSees

\* The insertion of a row leaves the table in hand as up to date as it was.
LEMMA RowTable == ASSUME IInv, InsertRow PROVE TableInHand' /\ FreshWork'
<1>1. /\ PageTypeOK /\ TypeOK /\ "web" \in Task
      /\ pc \in [Task -> Step] /\ DOMAIN return = Task
  BY DEF IInv, PageTypeOK, TypeOK, Task
<1>2. /\ pc["web"] = "insert" /\ pc'["web"] = "dump"
      /\ UNCHANGED <<return, sensor, sensorsMapping, work>>
  BY <1>1 DEF InsertRow, Insert, Goto, request
<1>3. work'.fresh /\ work # NoWork /\ Harmless(m_jsonData, work.rows, work.edited)
        => Harmless(m_jsonData', work.rows, work.edited)
  <2> SUFFICES ASSUME work.fresh, Harmless(m_jsonData, work.rows, work.edited)
               PROVE  Harmless(m_jsonData', work.rows, work.edited)
    BY <1>2
  <2>1. CASE Unchanged
    BY <2>1, HarmlessSame
  <2>2. CASE sensor["web"].identifier \in work.edited
    <3>1. m_jsonData'.sensors =
            [i \in DOMAIN m_jsonData.sensors \cup {sensor["web"].identifier} |->
               IF i = sensor["web"].identifier THEN sensor["web"].name
               ELSE m_jsonData.sensors[i]]
      BY <1>1 DEF InsertRow, Insert, withSensor, Conf, TypeOK
    <3> QED
      BY <2>2, <3>1 DEF Harmless
  <2> QED
    BY <2>1, <2>2, RowInHand
<1> QED
  BY <1>2, <1>3, TableKept DEF Handling, Adding, IInv, TableInHand

\* The web task turns to the next row of its table, or answers.
LEMMA NextRowTable == ASSUME IInv, NextRow PROVE TableInHand' /\ FreshWork'
<1>1. /\ TypeOK /\ "web" \in Task /\ m_jsonData' = m_jsonData
      /\ pc["web"] = "item" /\ sensorsMapping' = sensorsMapping /\ work' = work
      /\ pc \in [Task -> Step] /\ DOMAIN return = Task /\ DOMAIN sensor = Task
  BY DEF IInv, PageTypeOK, TypeOK, Task, NextRow, LastItem, NextItem, stored,
         request, pageVars
<1>2. return["web"] # "item"
  BY <1>1 DEF IInv, TableInHand, Adding
<1>3. CASE LastItem
  <2>1. pc'["web"] = "answer" /\ return' = return
    BY <1>1, <1>3 DEF LastItem, Goto
  <2> QED
    BY <1>2, <2>1, NoTable DEF Adding
<1>4. ASSUME NEW id \in todo, NextItem(id)
      PROVE  TableInHand' /\ FreshWork'
  <2>1. /\ pc'["web"] = "naming" /\ return'["web"] = "item"
        /\ sensor'["web"].identifier = id
        /\ sensor'["web"].name = sensorsMapping[id]
    BY <1>1, <1>4 DEF NextItem, Goto
  <2>2. id \in DOMAIN sensorsMapping /\ work # NoWork /\ sensorsMapping = work.rows
    BY <1>1, <1>4 DEF IInv, TypeOK, TableInHand, Handling
  <2>3. work.fresh => Harmless(m_jsonData, work.rows, work.edited)
    BY <1>1 DEF IInv, FreshWork, Handling
  <2> QED
    BY <1>1, <2>1, <2>2, <2>3 DEF TableInHand, FreshWork, Handling, Adding
<1> QED
  BY <1>3, <1>4 DEF NextRow

\* A request takes a table in hand, or another handler starts.
LEMMA RequestTable ==
  ASSUME IInv, NEW r \in posts, Request(r)
  PROVE  TableInHand' /\ FreshWork'
<1>1. /\ TypeOK /\ UpToDate /\ "web" \in Task /\ r \in Post
      /\ pc \in [Task -> Step] /\ DOMAIN return = Task
  BY DEF IInv, PageTypeOK, TypeOK, Task
<1>2. CASE updateSensorsMappingReq(r)
  <2>1. /\ pc["web"] = "idle" /\ pc'["web"] = "item" /\ return' = return
        /\ m_jsonData' = m_jsonData /\ sensorsMapping' = r.rows /\ work' = r
    BY <1>1, <1>2 DEF updateSensorsMappingReq, updateSensorsMapping, Free, Goto, stored
  <2>2. return["web"] # "item"
    BY <2>1 DEF IInv, TableInHand, Adding
  <2>3. r.fresh => Harmless(m_jsonData, r.rows, r.edited)
    BY <1>1, <1>2 DEF updateSensorsMappingReq, UpToDate, FreshPosts
  <2> QED
    BY <1>1, <2>1, <2>2, <2>3, NoWorkAssumption
       DEF TableInHand, FreshWork, Handling, Adding
<1>3. CASE removeSensorReq(r) \/ setPropertiesReq(r) \/ setCredentialsReq(r)
  <2>1. pc'["web"] = "dump" /\ return'["web"] = "answer"
    <3> HIDE DEF Uint16
    <3> QED
      BY <1>1, <1>3
         DEF removeSensorReq, setPropertiesReq, setCredentialsReq, RemoveSensor,
             setProperties, setCredentials, ChangeAndSave, SaveThen, Goto
  <2> QED
    BY <2>1, NoTable DEF Adding
<1> QED
  BY <1>2, <1>3 DEF Request

\* What leaves the tasks and the post in hand as they are.
LEMMA SameTable ==
  ASSUME IInv, UNCHANGED vars,
         work' = work \/ \E p : work # NoWork /\ work' = Aged(p, work)
  PROVE  TableInHand' /\ FreshWork'
<1>1. work # NoWork => /\ work' # NoWork
                       /\ work'.rows = work.rows /\ work'.edited = work.edited
                       /\ work'.fresh => work.fresh
  <2>1. work # NoWork => work \in Post
    BY DEF IInv, PageTypeOK
  <2> QED
    BY <2>1, AgedType, NoWorkAssumption
<1>2. UNCHANGED <<m_jsonData, pc, sensor, return, sensorsMapping>>
  BY DEF vars, stored, request
<1> QED
  BY <1>1, <1>2, TableKept DEF Handling, IInv, TableInHand

----------------------------------------------------------------------------
\* The invariant and what follows from it.

LEMMA InitInvariant == PageInit => IInv
<1> SUFFICES ASSUME PageInit PROVE IInv
  OBVIOUS
<1>1. PageTypeOK
  BY InitPageTypeOK
<1>2. pc["web"] = "idle" /\ return["web"] = "idle"
  BY IdleTypes DEF PageInit
<1>3. UpToDate /\ TableInHand /\ FreshWork
  BY <1>2 DEF PageInit, AdminHtml, UpToDate, FreshPages, FreshAnswers, FreshPosts,
              OldRemovals, TableInHand, FreshWork, Handling, Adding
<1> QED
  BY <1>1, <1>3 DEF IInv

LEMMA NextInvariant == IInv /\ [PageNext]_adminVars => IInv'
<1> SUFFICES ASSUME IInv, [PageNext]_adminVars PROVE IInv'
  OBVIOUS
<1>0. PageTypeOK /\ UpToDate
  BY DEF IInv
<1>1. CASE UNCHANGED adminVars
  <2>1. /\ UNCHANGED vars /\ work' = work /\ page' = page
        /\ asked' = asked /\ answers' = answers /\ posts' = posts
    BY <1>1 DEF adminVars, pageVars, connections
  <2>2. PageTypeOK'
    BY <1>0, <2>1, HostSame DEF PageTypeOK
  <2>3. UpToDate'
    BY <1>0, <2>1, QuietUpToDate DEF vars, stored
  <2> QED
    BY <2>1, <2>2, <2>3, SameTable DEF IInv
<1>2. CASE TaskStep \/ NextRow \/ InsertRow
  BY <1>0, <1>2, HostTypeOK, HostUpToDate, TaskTable, NextRowTable, RowTable
     DEF IInv
<1>3. CASE Answered \/ Reboot
  <2>1. (pc["web"] = "answer" /\ return' = return) \/ return'["web"] = "idle"
    BY <1>3, IdleTypes DEF Answered, SendOK, Reboot, Start
  <2>2. pc'["web"] = "idle" /\ return'["web"] # "item"
    BY <1>3, <2>1, IdleTypes
       DEF Answered, SendOK, Goto, Reboot, Start, IInv, PageTypeOK, TypeOK,
           TableInHand, Adding
  <2> QED
    BY <1>0, <1>3, <2>2, HostTypeOK, HostUpToDate, NoTable DEF IInv, Adding
<1>4. ASSUME NEW p \in Page, PageStep(p) PROVE IInv'
  <2>1. UNCHANGED vars /\ (work' = work \/ (work # NoWork /\ work' = Aged(p, work)))
    BY <1>4 DEF PageStep, Load, sendSensorRemovalReq, Reload, Rename, Send,
         sendSensorsMapping, SendFields, LoseFetch, configuration
  <2> QED
    BY <1>0, <1>4, <2>1, PageStepTypeOK, PageUpToDate, SameTable DEF IInv
<1>5. ASSUME NEW a \in answers, fetchConfiguration(a) PROVE IInv'
  <2>1. UNCHANGED vars /\ work' = work
    BY <1>5 DEF fetchConfiguration
  <2> QED
    BY <1>0, <1>5, <2>1, FetchTypeOK, FetchUpToDate, SameTable DEF IInv
<1>6. ASSUME NEW r \in posts, Request(r) PROVE IInv'
  BY <1>0, <1>6, HostTypeOK, HostUpToDate, RequestTable DEF IInv
<1>7. ASSUME NEW r \in posts, LosePost(r) PROVE IInv'
  <2>1. UNCHANGED vars /\ work' = work
    BY <1>7 DEF LosePost
  <2> QED
    BY <1>0, <1>7, <2>1, HostTypeOK, HostUpToDate, SameTable DEF IInv
<1> QED
  BY <1>1, <1>2, <1>3, <1>4, <1>5, <1>6, <1>7 DEF PageNext, PageStep, Request

LEMMA Invariant == PageSpec => []IInv
<1> QED
  BY InitInvariant, NextInvariant, PTL DEF PageSpec

\* Pages, requests, answers, the document, its copies and the tasks keep their
\* kinds, whatever is posted; the period has 16 bits (WebPageMain.cpp:257-290).
THEOREM PageTypeCorrect == PageSpec => []PageTypeOK
<1>1. IInv => PageTypeOK
  BY DEF IInv
<1> QED
  BY <1>1, Invariant, PTL

\* However the tasks interleave, a table posted from a page that is up to date
\* changes no name but those its user edited, and makes no sensor
\* (admin.js:85-116, WebPageMain.cpp:217-255).
THEOREM OnlyEditedAlways == PageSpec => OnlyEdited
<1>1. IInv => (InsertRow /\ work.fresh =>
                 /\ isSensorMapped(m_jsonData, sensor["web"].identifier)
                 /\ sensor["web"].identifier \in work.edited \/ Unchanged)
  BY RowInHand DEF isSensorMapped
<1> QED
  BY <1>1, Invariant, PTL DEF OnlyEdited
============================================================================
