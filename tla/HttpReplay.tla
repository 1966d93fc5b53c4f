----------------------------- MODULE HttpReplay ------------------------------
(***************************************************************************)
(* How the HTTP handlers answer for services that cannot be reached: every *)
(* response of a real service is filed and its row in HTTP_LOGS marked     *)
(* 'new'; a handler whose service is offline looks for such a row for the  *)
(* same site and location, copies the filed body into the document tree of *)
(* the local web server and lets that server answer.  The handlers are     *)
(* processes of their own that share the database, the files and the       *)
(* document tree.                                                          *)
(*                                                                         *)
(* A location is cut at its slashes, and a part of it at its question      *)
(* marks: /a/b?c/d is <<"a">>, <<"b", "c">>, <<"d">>.  Its query begins    *)
(* behind the first of them and may hold slashes.                          *)
(*                                                                         *)
(* The site stands for the requested host or the original address, either  *)
(* of which the lookup accepts.  The database and the disk                 *)
(* do not fail, every real response has a body that is read in one piece   *)
(* (HttpLog has the pieces), the dummy page is installed, and no page has  *)
(* the name of a directory of the log files.  A handler may be killed      *)
(* anywhere: it then takes no step any more, which every behaviour of this *)
(* module allows.                                                          *)
(***************************************************************************)
EXTENDS Integers, Sequences, FiniteSets

CONSTANTS Handler,      \* the HTTP handlers, one for every connection
          Offline,      \* those with conn->destOffline
          Site, Location,
          Asks,         \* the pairs of them that are asked for
          Loads,        \* the numbers of requests to look at, on every connection
          Null,         \* the empty string, the missing page
          Garbage,      \* what an uninitialised array holds
          DummyPage, ErrorPage, EmptyPage, MixedPage, Directory

Part == Seq(STRING) \ {<<>>}

ASSUME LocationAssumption ==
    /\ Location \subseteq Seq(Part) \ {<<>>}
    /\ Asks \subseteq Site \X Location
ASSUME HandlerAssumption ==
    /\ IsFiniteSet(Handler) /\ Offline \subseteq Handler
    /\ Loads \subseteq [Handler -> Nat]

VARIABLES load,         \* how many requests come on a connection
          timestamp,    \* conn->timestamp, compared as text: in no order of time
          logs,         \* HTTP_LOGS
          filed,        \* the files under http/rcvd, by name
          htdocs,       \* the document tree of the web server
          pc,           \* what a handler does next
          request,      \* the request in work
          emulated,     \* conn->timestampEmulation
          depth,        \* how many directories of the location it has changed to
          src,          \* the array of emulate_server_response, kept on the stack
          lost,         \* its working directory is not the one it started in
          waiting,      \* the requests forwarded and not answered
          answered,     \* how many were answered
          answer,       \* history: the last answer of the web server
          overlapped    \* history: two handlers have built directories at once

disk == <<filed, htdocs>>
conn == <<load, timestamp>>
replies == <<waiting, answered, answer>>
replayVars == <<conn, logs, disk, pc, request, emulated, depth, src, lost, replies,
                overlapped>>

Stamp == 1 .. Cardinality(Handler)
Name == Stamp \X Nat
Real == [site : Site, location : Location, ts : Stamp]
Page == Real \cup {DummyPage, ErrorPage, EmptyPage, MixedPage}
Type == {"new", "old", "dummy"}       \* responseReturnedType
LogRow == [ts : Stamp, site : Site, location : Location, type : Type,
           body : Name \cup {Null}]

\* History in a request: whether a row was found for it, and whether another
\* request has written to its page since.
Request == [site : Site, location : Location, type : Type, found : BOOLEAN,
            touched : BOOLEAN]

\* What marks an absence, and pages that are no response, are told from all else.
ASSUME MarkAssumption ==
    /\ Null \notin Request \cup Name \cup Page \cup Stamp
    /\ Garbage \notin Stamp /\ DummyPage \notin Name \cup Real \cup {Null, Garbage}
    /\ Directory \notin Page \cup {Null}
    /\ ErrorPage \notin Real /\ EmptyPage \notin Real /\ MixedPage \notin Real

-----------------------------------------------------------------------------
\* extract_dir_and_filename_from_request.  The directories are all before the last
\* slash, even when that is in the query, but the name of the file is what comes
\* before the query.
Directories(l) == SubSeq(l, 1, Len(l) - 1)

\* The part in which the query begins, or the last one
Ending(l) == CHOOSE i \in DOMAIN l : /\ Len(l[i]) > 1 \/ i = Len(l)
                                     /\ \A j \in 1 .. i - 1 : Len(l[j]) = 1

FileName(l) == LET name == l[Ending(l)][1] IN
               <<IF name = "" THEN "index.html" ELSE name>>

\* The page that is written
Destination(l) == Append(Directories(l), FileName(l))

\* The page the web server answers with: it takes all before the query.
PathOf(l) == Append(SubSeq(l, 1, Ending(l) - 1), FileName(l))

Paths == UNION {{SubSeq(l, 1, n) : n \in 1 .. Len(l) - 1} \cup {Destination(l), PathOf(l)} :
                  l \in Location}

-----------------------------------------------------------------------------
ReplayTypeOK ==
    /\ load \in [Handler -> Nat]
    /\ timestamp \in [Handler -> Stamp]
    /\ logs \in Seq(LogRow)
    /\ DOMAIN filed \subseteq Name /\ \A n \in DOMAIN filed : filed[n] \in Page
    /\ htdocs \in [Paths -> Page \cup {Null, Directory}]
    /\ pc \in [Handler -> {"read", "walk", "mkdir", "source", "open", "write", "log"}]
    /\ request \in [Handler -> Request \cup {Null}]
    /\ emulated \in [Handler -> Stamp \cup {Null}]
    /\ depth \in [Handler -> Nat]
    /\ src \in [Handler -> Name \cup {Garbage, DummyPage}]
    /\ lost \in [Handler -> BOOLEAN]
    /\ waiting \in [Handler -> Seq(Request)]
    /\ answered \in [Handler -> Nat]
    /\ overlapped \in BOOLEAN

ReplayInit ==
    /\ load \in Loads
    /\ timestamp \in {f \in [Handler -> Stamp] :
                        \A h, k \in Handler : f[h] = f[k] => h = k}
    /\ logs = <<>>
    /\ filed = <<>>
    /\ htdocs = [p \in Paths |-> Null]
    /\ pc = [h \in Handler |-> "read"]
    /\ request = [h \in Handler |-> Null]
    /\ emulated = [h \in Handler |-> Null]
    /\ depth = [h \in Handler |-> 0]
    /\ src = [h \in Handler |-> Garbage]
    /\ lost = [h \in Handler |-> FALSE]
    /\ waiting = [h \in Handler |-> <<>>]
    /\ answered = [h \in Handler |-> 0]
    /\ answer = [h \in Handler |-> Null]
    /\ overlapped = FALSE

Goto(h, label) == pc' = [pc EXCEPT ![h] = label]

-----------------------------------------------------------------------------
\* ph_http_handle_payload_cts

Forward(h, r) ==
    /\ logs' = Append(logs, [ts |-> timestamp[h], site |-> r.site, location |-> r.location,
                             type |-> r.type, body |-> Null])
    /\ waiting' = [waiting EXCEPT ![h] = Append(@, r)]

CanRead(h) == pc[h] = "read" /\ answered[h] + Len(waiting[h]) < load[h]

\* The service is online: the request is logged and forwarded.
ReadRequest(h) ==
    /\ CanRead(h) /\ h \notin Offline
    /\ \E s \in Site, l \in Location :
         /\ <<s, l>> \in Asks
         /\ Forward(h, [site |-> s, location |-> l, type |-> "new", found |-> FALSE,
                        touched |-> FALSE])
    /\ UNCHANGED <<conn, disk, pc, request, emulated, depth, src, lost,
                   answered, answer>>

\* Fault: the row is looked up by the location alone
Fitting_AnySite(s, l) ==
    {i \in DOMAIN logs : logs[i].type = "new" /\ logs[i].location = l}

\* The rows of real services that fit a request
Fitting(s, l) ==
    {i \in DOMAIN logs : logs[i].type = "new" /\ logs[i].site = s /\ logs[i].location = l}

\* Fault: what is emulated counts as new
ReadOffline_New(h) ==
    /\ CanRead(h) /\ h \in Offline
    /\ \E s \in Site, l \in Location :
         LET stamps == {logs[i].ts : i \in Fitting(s, l)} IN
         /\ <<s, l>> \in Asks
         /\ request' = [request EXCEPT ![h] =
              [site |-> s, location |-> l, type |-> "new", found |-> stamps # {},
               touched |-> FALSE]]
         /\ \E t \in stamps \cup {Null} :
              /\ IF stamps = {} THEN t = Null ELSE t # Null /\ \A u \in stamps : u <= t
              /\ emulated' = [emulated EXCEPT ![h] = t]
         /\ Goto(h, IF Directories(l) = <<>> THEN "source" ELSE "walk")
    /\ UNCHANGED <<conn, logs, disk, depth, src, lost, replies>>

\* The service is offline: a row is looked up.  max() answers with an empty
\* string if nothing fits.
ReadOffline(h) ==
    /\ CanRead(h) /\ h \in Offline
    /\ \E s \in Site, l \in Location :
         LET stamps == {logs[i].ts : i \in Fitting(s, l)} IN
         /\ <<s, l>> \in Asks
         /\ request' = [request EXCEPT ![h] =
              [site |-> s, location |-> l, type |-> "old", found |-> stamps # {},
               touched |-> FALSE]]
         /\ \E t \in stamps \cup {Null} :
              /\ IF stamps = {} THEN t = Null ELSE t # Null /\ \A u \in stamps : u <= t
              /\ emulated' = [emulated EXCEPT ![h] = t]
         /\ Goto(h, IF Directories(l) = <<>> THEN "source" ELSE "walk")
    /\ UNCHANGED <<conn, logs, disk, depth, src, lost, replies>>

-----------------------------------------------------------------------------
\* build_tree and create_path_tree

NextDir(h) == SubSeq(Directories(request[h].location), 1, depth[h] + 1)

\* Fault: build_tree does not go back where it was called
Entered_Stays(h) ==
    IF depth[h] + 1 = Len(Directories(request[h].location))
    THEN /\ depth' = [depth EXCEPT ![h] = 0]
         /\ lost' = [lost EXCEPT ![h] = TRUE]
         /\ Goto(h, "source")
    ELSE /\ depth' = [depth EXCEPT ![h] = depth[h] + 1]
         /\ Goto(h, "walk")
         /\ UNCHANGED lost

\* One directory further; after the last one back to the one it was called in
Entered(h) ==
    IF depth[h] + 1 = Len(Directories(request[h].location))
    THEN /\ depth' = [depth EXCEPT ![h] = 0]
         /\ Goto(h, "source")
         /\ UNCHANGED lost
    ELSE /\ depth' = [depth EXCEPT ![h] = depth[h] + 1]
         /\ Goto(h, "walk")
         /\ UNCHANGED lost

ChangeDir(h) ==
    /\ pc[h] = "walk"
    /\ IF htdocs[NextDir(h)] = Directory THEN Entered(h)
       ELSE Goto(h, "mkdir") /\ UNCHANGED <<depth, lost>>
    /\ UNCHANGED <<conn, logs, disk, request, emulated, src, replies>>

\* A directory is made after it could not be changed to.  When there is
\* something of that name by now, mkdir fails, and build_tree returns without
\* going back.
MakeDir(h) ==
    /\ pc[h] = "mkdir"
    /\ IF htdocs[NextDir(h)] = Null
         THEN /\ htdocs' = [htdocs EXCEPT ![NextDir(h)] = Directory]
              /\ Entered(h)
         ELSE /\ lost' = [lost EXCEPT ![h] = TRUE]
              /\ depth' = [depth EXCEPT ![h] = 0]
              /\ Goto(h, "source")
              /\ UNCHANGED htdocs
    /\ UNCHANGED <<conn, logs, filed, request, emulated, src, replies>>

-----------------------------------------------------------------------------
\* The rest of emulate_server_response, with copy

\* What is in src after the second query: it takes any row of the timestamp,
\* and nothing if there is none, which leaves the array as it was.
Sources(h) ==
    IF emulated[h] = Null THEN {src[h], Garbage, Null}
    ELSE {logs[i].body : i \in {j \in DOMAIN logs : logs[j].ts = emulated[h]}}

\* No name, the row has no response yet: the dummy page
FindSource(h) ==
    /\ pc[h] = "source"
    /\ \E s \in Sources(h) :
         IF s = Null
           THEN /\ src' = [src EXCEPT ![h] = DummyPage]
                /\ request' = [request EXCEPT ![h].type = "dummy"]
           ELSE /\ src' = [src EXCEPT ![h] = s]
                /\ UNCHANGED request
    /\ Goto(h, "open")
    /\ UNCHANGED <<conn, logs, disk, emulated, depth, lost, replies>>

\* The name of a filed body is relative to the working directory.
CanOpen(h) == \/ src[h] = DummyPage
              \/ src[h] \in DOMAIN filed /\ ~lost[h]

CanCreate(l) == /\ htdocs[Destination(l)] # Directory
                /\ \A n \in DOMAIN Directories(l) : htdocs[SubSeq(l, 1, n)] = Directory

\* Marks the requests with the page h writes to, but not its own in work
Touched(h, p) ==
    /\ request' = [k \in Handler |->
         IF k # h /\ request[k] # Null /\ Destination(request[k].location) = p
           THEN [request[k] EXCEPT !.touched = TRUE] ELSE request[k]]
    /\ waiting' = [k \in Handler |-> [i \in DOMAIN waiting[k] |->
         [waiting[k][i] EXCEPT !.touched = @ \/ Destination(waiting[k][i].location) = p]]]

\* fopen with "wb" empties the page.
OpenPage(h) ==
    LET p == Destination(request[h].location) IN
    /\ pc[h] = "open"
    /\ CanOpen(h) /\ CanCreate(request[h].location)
    /\ htdocs' = [htdocs EXCEPT ![p] = EmptyPage]
    /\ Touched(h, p)
    /\ Goto(h, "write")
    /\ UNCHANGED <<conn, logs, filed, emulated, depth, src, lost, answered, answer>>

\* The request goes on with whatever page there is.
CopyFails(h) ==
    /\ pc[h] = "open"
    /\ ~(CanOpen(h) /\ CanCreate(request[h].location))
    /\ Goto(h, "log")
    /\ UNCHANGED <<conn, logs, disk, request, emulated, depth, src, lost, replies>>

Content(s) == IF s = DummyPage THEN DummyPage ELSE filed[s]

\* Two that write one page at once leave the tail of the longer one.
WritePage(h) ==
    LET p == Destination(request[h].location)
        new == Content(src[h]) IN
    /\ pc[h] = "write"
    /\ \E page \in {new} \cup (IF htdocs[p] \in {EmptyPage, new} THEN {} ELSE {MixedPage}) :
         htdocs' = [htdocs EXCEPT ![p] = page]
    /\ Touched(h, p)
    /\ Goto(h, "log")
    /\ UNCHANGED <<conn, logs, filed, emulated, depth, src, lost, answered, answer>>

\* The row is inserted and the request forwarded.
LogRequest(h) ==
    /\ pc[h] = "log"
    /\ Forward(h, request[h])
    /\ request' = [request EXCEPT ![h] = Null]
    /\ Goto(h, "read")
    /\ UNCHANGED <<conn, disk, emulated, depth, src, lost, answered, answer>>

-----------------------------------------------------------------------------
\* ph_http_handle_payload_stc

\* A response is filed under a name of its own and put into every row of the
\* connection.
File(h, page) ==
    LET name == <<timestamp[h], answered[h] + 1>> IN
    /\ filed' = IF lost[h] THEN filed
                ELSE [n \in DOMAIN filed \cup {name} |-> IF n = name THEN page ELSE filed[n]]
    /\ logs' = [i \in DOMAIN logs |-> IF logs[i].ts = timestamp[h]
                  THEN [logs[i] EXCEPT !.body = name] ELSE logs[i]]
    /\ answered' = [answered EXCEPT ![h] = @ + 1]
    /\ waiting' = [waiting EXCEPT ![h] = Tail(@)]

RealResponse(h) ==
    /\ pc[h] = "read"
    /\ h \notin Offline /\ waiting[h] # <<>>
    /\ LET r == Head(waiting[h]) IN
         File(h, [site |-> r.site, location |-> r.location, ts |-> timestamp[h]])
    /\ UNCHANGED <<conn, htdocs, pc, request, emulated, depth, src, lost, answer>>

\* manipulate_server_payload: the name of the server is replaced by one logged under
\* the timestamp used last.  A row that has no response yet has none, and without a
\* row it is what an uninitialised array holds.
Servers(h) ==
    IF emulated[h] = Null THEN {Garbage}
    ELSE {IF logs[i].body = Null THEN Null ELSE logs[i].ts :
            i \in {j \in DOMAIN logs : logs[j].ts = emulated[h]}}

\* The web server answers with the page it has by then.
LocalResponse(h) ==
    /\ pc[h] = "read"
    /\ h \in Offline /\ waiting[h] # <<>>
    /\ LET r == Head(waiting[h])
           there == htdocs[PathOf(r.location)]
           page == IF there \in {Null, Directory} THEN ErrorPage ELSE there IN
       /\ File(h, page)
       /\ \E server \in Servers(h) :
            answer' = [answer EXCEPT ![h] =
              [request |-> r, page |-> page, alone |-> Len(waiting[h]) = 1,
               server |-> server]]
    /\ UNCHANGED <<conn, htdocs, pc, request, emulated, depth, src, lost>>

Building(h) == pc[h] \in {"walk", "mkdir"}

Step(h) ==
    \/ ReadRequest(h) \/ ReadOffline(h) \/ ChangeDir(h) \/ MakeDir(h)
    \/ FindSource(h) \/ OpenPage(h) \/ CopyFails(h) \/ WritePage(h) \/ LogRequest(h)
    \/ RealResponse(h) \/ LocalResponse(h)

ReplayNext ==
    /\ \E h \in Handler : Step(h)
    /\ overlapped' = (overlapped \/ \E h, k \in Handler :
                        h # k /\ Building(h)' /\ Building(k)')

ReplaySpec == ReplayInit /\ [][ReplayNext]_replayVars

-----------------------------------------------------------------------------
\* Nothing the TrumanBox invented is ever taken for real: what a row marked
\* 'new' leads to is a response of a real service, given on that connection,
\* whatever the web server was made to answer meanwhile (http.c:52, 277;
\* log_postgres.c:222, 230).
NoEcho ==
    \A i \in DOMAIN logs :
      logs[i].type = "new" /\ logs[i].body # Null =>
        /\ logs[i].body \in DOMAIN filed
        /\ filed[logs[i].body] \in Real
        /\ filed[logs[i].body].ts = logs[i].ts

\* What was asked for on the connection of a real service
AskedAt(t) == {<<logs[i].site, logs[i].location>> :
                 i \in {j \in DOMAIN logs : logs[j].ts = t /\ logs[j].type = "new"}}

\* When an old response was found and nobody else has written to the page, the
\* client gets a response of a real service, given on a connection on which just
\* this was asked for, or the dummy page if that had no response then.  It is the
\* response to something else only if something else was asked for on that
\* connection too, as the last response replaces the earlier ones in all its rows.
\* Unless requests are pipelined, the name of the server is of the same connection,
\* or missing.  Excepted are handlers that lost their working directory, pages that
\* are directories, and locations with a slash in the query, whose page is not the
\* one that is served (http.c:10-17, 50-104; helper_file.c:137-215;
\* log_postgres.c:230).
AnswersRight ==
    \A h \in Handler :
      LET a == answer[h]
          l == a.request.location IN
      /\ a # Null /\ ~lost[h]
      /\ a.request.found /\ ~a.request.touched
      /\ PathOf(l) = Destination(l) /\ htdocs[Destination(l)] # Directory
      => IF a.request.type = "dummy" THEN a.page = DummyPage
         ELSE /\ a.page \in Real
              /\ <<a.request.site, l>> \in AskedAt(a.page.ts)
              /\ AskedAt(a.page.ts) = {<<a.request.site, l>>} =>
                   a.page.site = a.request.site /\ a.page.location = l
              /\ a.alone => a.server \in {a.page.ts, Null}

\* The locations asked for so far, by some handlers
Asked(hs) ==
    {logs[i].location : i \in {j \in DOMAIN logs : \E h \in hs : logs[j].ts = timestamp[h]}}
    \cup {request[h].location : h \in {k \in hs : request[k] # Null}}

\* Only two things can make a handler lose its working directory, and with it
\* every file it names from then on: handlers that build directories at the same
\* time, and a page of the name of a directory it needs (helper_file.c:88-126,
\* 254-276).
HomeKept ==
    \A h \in Handler : lost[h] =>
      \/ overlapped
      \/ \E l \in Asked({h}), m \in Asked(Handler) :
           \E n \in 1 .. Len(l) - 1 : Destination(m) = SubSeq(l, 1, n)
=============================================================================
