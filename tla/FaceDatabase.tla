---------------------------- MODULE FaceDatabase ----------------------------
(***************************************************************************)
(* The face libraries of the process and their file.  Every face plugin    *)
(* opens a FaceDatabase of its own and by default all have the same file:  *)
(* handlers of the HTTP server register and remove faces in that of main's *)
(* plugin, each time with a Save; the plugins of other sessions only load  *)
(* the file when they are opened and save what they have loaded when they  *)
(* are closed.  The process may crash at any point, also in a Save.        *)
(*                                                                         *)
(* Each method runs under the mutex_ of its database; only Save takes      *)
(* several steps.  A face is its name, and a library the set of its names: *)
(* no property tells the order apart.  What a Save has written is what     *)
(* Load finds, without an entry that is not complete; where two Saves      *)
(* overlap in the file, each may overwrite what the other has written.     *)
(***************************************************************************)
EXTENDS Integers, FiniteSets

CONSTANTS Names,      \* names of persons
          Handlers,   \* threads of the HTTP server
          Others,     \* face plugins besides main's
          MaxChanges, \* requests that register, remove or open a plugin (model bound)
          MaxCrashes  \* crashes and failures of Save (model bound)

Databases == {"main"} \cup Others
Actors    == Handlers \cup Databases   \* a plugin acts on the database it owns

\* What the constants are.
FacesConstants ==
  /\ IsFiniteSet(Names) /\ IsFiniteSet(Handlers)
  /\ Handlers \cap Databases = {} /\ "main" \notin Others /\ "none" \notin Actors
  /\ {MaxChanges, MaxCrashes} \subseteq Nat

VARIABLES entries,   \* entries_ of each database
          file,      \* the entries in the file at db_path_
          saving,    \* per database, who is in Save, hence has mutex_, or "none"
          left,      \* per database, the entries that Save has not written
          request,   \* per actor: "none", or its next call, "Save" or "answer"; "closed"
          adding,    \* per handler, the name it registers, if not removed since (history)
          up,        \* the process runs
          changes, crashes,
          acked,     \* names whose POST was answered and that no DELETE removed (history)
          unsaved,   \* a Save of main's has failed since the last one that did not (history)
          authors    \* whose Saves the file is made of, since main loaded it (history)

vars == <<entries, file, saving, left, request, adding, up, changes, crashes, acked, unsaved, authors>>

Database(a) == IF a \in Handlers THEN "main" ELSE a

\* At the start main's plugin is open, the others are not.
Fresh == [a \in Actors |-> IF a \in Others THEN "closed" ELSE "none"]

Init ==
  /\ entries = [d \in Databases |-> {}] /\ file = {}
  /\ saving = [d \in Databases |-> "none"] /\ left = [d \in Databases |-> {}]
  /\ request = Fresh /\ adding = [h \in Handlers |-> {}]
  /\ up = TRUE /\ changes = 0 /\ crashes = 0 /\ acked = {} /\ unsaved = FALSE /\ authors = {"main"}

-----------------------------------------------------------------------------

Asks(h) == up /\ request[h] = "none" /\ changes < MaxChanges /\ saving["main"] = "none"

\* POST /api/faces: Register.
Register(h, n) ==
  /\ Asks(h)
  /\ entries' = [entries EXCEPT !["main"] = @ \cup {n}]
  /\ adding' = [adding EXCEPT ![h] = {n}]
  /\ request' = [request EXCEPT ![h] = "Save"]
  /\ changes' = changes + 1
  /\ UNCHANGED <<file, saving, left, up, crashes, acked, unsaved, authors>>

\* Mutant: DELETE does not save.
RemoveFaceUnsaved(h, n) ==
  /\ Asks(h) /\ n \in entries["main"]
  /\ entries' = [entries EXCEPT !["main"] = @ \ {n}]
  /\ acked' = acked \ {n}
  /\ changes' = changes + 1
  /\ UNCHANGED <<file, saving, left, request, adding, up, crashes, unsaved, authors>>

\* DELETE /api/faces/{name}: Remove; it saves only if there was such a face.
RemoveFace(h, n) ==
  /\ Asks(h) /\ n \in entries["main"]
  /\ entries' = [entries EXCEPT !["main"] = @ \ {n}]
  /\ acked' = acked \ {n}
  /\ adding' = [x \in Handlers |-> adding[x] \ {n}]
  /\ request' = [request EXCEPT ![h] = "Save"]
  /\ changes' = changes + 1
  /\ UNCHANGED <<file, saving, left, up, crashes, unsaved, authors>>

\* Open of another plugin, for a session that is created or gets new effects: it
\* loads what is in the file, be it in the middle of a Save.
OpenPlugin(o) ==
  /\ up /\ request[o] = "closed" /\ changes < MaxChanges
  /\ entries' = [entries EXCEPT ![o] = file]
  /\ request' = [request EXCEPT ![o] = "none"]
  /\ changes' = changes + 1
  /\ UNCHANGED <<file, saving, left, adding, up, crashes, acked, unsaved, authors>>

\* FaceRecognitionPlugin::Close: its session stops, or PUT .../effects replaces it.
ClosePlugin(d) ==
  /\ up /\ request[d] = "none"
  /\ request' = [request EXCEPT ![d] = "Save"]
  /\ UNCHANGED <<entries, file, saving, left, adding, up, changes, crashes, acked, unsaved, authors>>

\* Save: mutex_; opening the file truncates it, under another Save too.
SaveOpen(a) ==
  LET d == Database(a)
  IN /\ up /\ request[a] = "Save" /\ saving[d] = "none"
     /\ file' = {} /\ left' = [left EXCEPT ![d] = entries[d]]
     /\ saving' = [saving EXCEPT ![d] = a]
     /\ authors' = {d} \cup {x \in Databases : saving[x] # "none"}
     /\ UNCHANGED <<entries, request, adding, up, changes, crashes, acked, unsaved>>

\* The file cannot be opened: Save returns false, and nobody looks at it.
SaveFails(a) ==
  /\ up /\ request[a] = "Save" /\ saving[Database(a)] = "none" /\ crashes < MaxCrashes
  /\ request' = [request EXCEPT ![a] = "answer"]
  /\ unsaved' = (unsaved \/ Database(a) = "main") /\ crashes' = crashes + 1
  /\ UNCHANGED <<entries, file, saving, left, adding, up, changes, acked, authors>>

\* What a write leaves of the file of which the Saves of writers have written.
Kept(writers) == IF Cardinality(writers) > 1 THEN SUBSET file ELSE {file}

SaveEntry(a) ==
  LET d == Database(a)
  IN /\ up /\ saving[d] = a
     /\ \E n \in left[d], kept \in Kept(authors) :
          file' = kept \cup {n} /\ left' = [left EXCEPT ![d] = @ \ {n}]
     /\ UNCHANGED <<entries, saving, request, adding, up, changes, crashes, acked, unsaved, authors>>

SaveClose(a) ==
  LET d == Database(a)
  IN /\ up /\ saving[d] = a /\ left[d] = {}
     /\ saving' = [saving EXCEPT ![d] = "none"]
     /\ request' = [request EXCEPT ![a] = "answer"]
     /\ unsaved' = (unsaved /\ d # "main")
     /\ UNCHANGED <<entries, file, left, adding, up, changes, crashes, acked, authors>>

Save(a) == SaveOpen(a) \/ SaveFails(a) \/ SaveEntry(a) \/ SaveClose(a)

\* The answer says ok whatever Save returned; a plugin is closed.
Answer(a) ==
  /\ up /\ request[a] = "answer"
  /\ request' = [request EXCEPT ![a] = IF a \in Handlers THEN "none" ELSE "closed"]
  /\ IF a \in Handlers
     THEN acked' = acked \cup adding[a] /\ adding' = [adding EXCEPT ![a] = {}]
     ELSE UNCHANGED <<acked, adding>>
  /\ UNCHANGED <<entries, file, saving, left, up, changes, crashes, unsaved, authors>>

\* The file is as main's last Save left it.
MainsFile == saving["main"] = "none" /\ ~unsaved /\ authors = {"main"}

\* The process dies.  Only a Save that was going on or had failed, or that of
\* another database, excuses the loss of a face that was acknowledged.
Crash ==
  /\ up /\ crashes < MaxCrashes
  /\ up' = FALSE /\ crashes' = crashes + 1
  /\ entries' = [d \in Databases |-> {}]
  /\ saving' = [d \in Databases |-> "none"] /\ left' = [d \in Databases |-> {}]
  /\ request' = Fresh /\ adding' = [h \in Handlers |-> {}]
  /\ acked' = IF MainsFile THEN acked ELSE acked \cap file
  /\ unsaved' = FALSE
  /\ UNCHANGED <<file, changes, authors>>

\* The process starts again; the Open of main's plugin calls Load.
Load ==
  /\ ~up
  /\ up' = TRUE /\ entries' = [entries EXCEPT !["main"] = file] /\ authors' = {"main"}
  /\ UNCHANGED <<file, saving, left, request, adding, changes, crashes, acked, unsaved>>

Next ==
  \/ \E h \in Handlers, n \in Names : Register(h, n) \/ RemoveFace(h, n)
  \/ \E a \in Actors : Save(a) \/ Answer(a)
  \/ \E o \in Others : OpenPlugin(o)
  \/ \E d \in Databases : ClosePlugin(d)
  \/ Crash \/ Load

Spec == Init /\ [][Next]_vars

-----------------------------------------------------------------------------

\* Every variable has its type, and who is in a Save of a database asked for it.
TypeOK ==
  /\ entries \in [Databases -> SUBSET Names] /\ left \in [Databases -> SUBSET Names]
  /\ file \subseteq Names /\ authors \subseteq Databases
  /\ saving \in [Databases -> Actors \cup {"none"}]
  /\ request \in [Actors -> {"none", "Save", "answer", "closed"}]
  /\ adding \in [Handlers -> SUBSET Names]
  /\ {up, unsaved} \subseteq BOOLEAN /\ acked \subseteq Names

\* However the requests of several handlers and the closing of plugins interleave:
\* main's database has every face that was acknowledged, after a restart too; and
\* the file has them, and when no request is in progress it has what the database
\* has.  Excused is the file that the Save of another database has overwritten,
\* until main's saves or loads it again, and a crash that finds it so, or comes in
\* a Save of main's or after one that failed (FaceDatabase.cpp:140-174).
FacesKept ==
  /\ up => acked \subseteq entries["main"]
  /\ MainsFile =>
       /\ acked \subseteq file
       /\ up /\ (\A a \in Handlers \cup {"main"} : request[a] # "Save") => file = entries["main"]

=============================================================================
