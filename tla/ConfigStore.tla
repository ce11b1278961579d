----------------------------- MODULE ConfigStore -----------------------------
(***************************************************************************)
(* The dynamic configuration: config.Store (internal/config/store.go), the *)
(* admin handlers that use it (internal/admin/server.go) and the reload    *)
(* they are given (main.go, discoverAndApply).                             *)
(*                                                                         *)
(* The file system is modelled by its inodes: a handler that has opened the*)
(* temporary file writes to that inode whatever its name has become.  Each *)
(* request runs in a goroutine of its own, and the initial discovery of    *)
(* main in another while the admin server is already up.  The proxy may    *)
(* crash at any step and start again.                                      *)
(***************************************************************************)
EXTENDS Integers, FiniteSets

CONSTANTS
  Configs,    \* configurations a user may send or write, all with services
  Length,     \* Length[c]: size of c as YAML
  Rejected,   \* configurations that validate refuses
  Portless,   \* configurations with a service that has no port and no host
  Handlers,   \* goroutines of the admin server
  Main,       \* the goroutine of main
  Inodes,     \* inodes the two files may have
  NoServices, \* the configuration without services: an empty file, the placeholder
  Torn,       \* content that is not the YAML of one configuration
  None,       \* no inode, no configuration
  MaxEdits,   \* bound: edits of the file by the user
  MaxCrashes  \* bound: crashes

ASSUME LengthAssumption == \A c \in Configs : Length[c] \in Nat \ {0}
ASSUME SubsetAssumption == Rejected \subseteq Configs /\ Portless \subseteq Configs
ASSUME NamesAssumption ==
  /\ NoServices \notin Configs /\ Torn \notin Configs \cup {NoServices}
  /\ Main \notin Handlers /\ None \notin Inodes \cup Configs \cup {NoServices, Torn}

Goroutines == Handlers \cup {Main}
Contents == Configs \cup {NoServices, Torn}

VARIABLES
  content,  \* content of each inode
  path,     \* inode of the config file, or None
  tmp,      \* inode of the temporary file, or None
  memory,   \* Store.config
  applied,  \* the configuration the proxy runs
  running,  \* the process is up
  pc,       \* where each goroutine is
  body,     \* the configuration a goroutine saves, or has read
  fd,       \* the inode it has open
  merged,   \* the configuration its discovery has merged
  edits, crashes,
  latest,   \* history: the configuration last renamed into place or edited in
  overlap,  \* history: two Saves, or a placeholder and a file, have met
  several,  \* history: two goroutines have been at work at once since the start
  failed    \* history: a request has failed half way since the start

files == <<content, path, tmp>>
requests == <<pc, body, fd, merged>>
history == <<latest, overlap, several, failed>>
vars == <<files, memory, applied, running, requests, edits, crashes, history>>

Goto(g, label) == pc' = [pc EXCEPT ![g] = label]
Idle == \A g \in Goroutines : pc[g] = "idle"

\* What a goroutine holds in its local variables.
Locals(g, b, m) == body' = [body EXCEPT ![g] = b] /\ merged' = [merged EXCEPT ![g] = m]

\* A request that goes wrong is answered with an error.
Fails(g) == Goto(g, "idle") /\ failed' = TRUE /\ Locals(g, None, None)
GoesOn(g, label) == Goto(g, label) /\ UNCHANGED <<failed, body, merged>>

\* A goroutine begins a request.
Begins(g, label) == Goto(g, label) /\ several' = (several \/ ~Idle)

Free == {i \in Inodes : i \notin {path, tmp} /\ \A g \in Goroutines : fd[g] # i}

-----------------------------------------------------------------------------
(* PUT /config/update *)

Accepted(c) == c \notin Rejected

\* handleUpdate and the validation of Save.
Update(g, c) ==
  /\ running /\ g \in Handlers /\ pc[g] = "idle"
  /\ IF Accepted(c)
     THEN Begins(g, "open") /\ body' = [body EXCEPT ![g] = c]
     ELSE UNCHANGED <<pc, body, several>>
  /\ UNCHANGED <<files, memory, applied, running, fd, merged, edits, crashes,
                 latest, overlap, failed>>

OpenInPlace(g) ==  \* regression: the config file itself is truncated and written
  \E i \in Inodes :
    /\ i = IF path # None THEN path ELSE i
    /\ path' = i /\ tmp' = i
    /\ fd' = [fd EXCEPT ![g] = i]
    /\ content' = [content EXCEPT ![i] = NoServices]

\* os.WriteFile creates or truncates the temporary file.
OpenTmp(g) ==
  \E i \in IF tmp = None THEN Free ELSE {tmp} :
    /\ tmp' = i /\ UNCHANGED path
    /\ fd' = [fd EXCEPT ![g] = i]
    /\ content' = [content EXCEPT ![i] = NoServices]

AtFiles(g) == pc[g] \in {"write", "rename"}

SaveOpen(g) ==
  /\ running /\ pc[g] = "open"
  /\ OpenTmp(g)
  /\ Goto(g, "write")
  /\ overlap' = (overlap \/ \E h \in Goroutines : AtFiles(h))
  /\ UNCHANGED <<memory, applied, running, body, merged, edits, crashes, latest, several, failed>>

\* What is in an inode when c is written from its start: the tail of something
\* longer stays behind.
Written(c, old) ==
  IF old = NoServices \/ (old \in Configs /\ Length[old] <= Length[c]) THEN c ELSE Torn

SaveWrite(g) ==
  /\ running /\ pc[g] = "write"
  /\ content' = [content EXCEPT ![fd[g]] = Written(body[g], @)]
  /\ fd' = [fd EXCEPT ![g] = None]
  /\ GoesOn(g, "rename")
  /\ UNCHANGED <<path, tmp, memory, applied, running, edits, crashes, latest, overlap, several>>

RenameAnyway(g) == GoesOn(g, "rename")  \* regression: the write error is ignored
WriteError(g) == Fails(g)

\* The disk is full: part of the YAML is written, or nothing.
SaveWriteFails(g) ==
  /\ running /\ pc[g] = "write"
  /\ UNCHANGED content \/ content' = [content EXCEPT ![fd[g]] = Torn]
  /\ fd' = [fd EXCEPT ![g] = None]
  /\ WriteError(g)
  /\ UNCHANGED <<path, tmp, memory, applied, running, edits, crashes, latest, overlap, several>>

\* os.Rename, which fails when another Save has renamed the temporary file.
SaveRename(g) ==
  /\ running /\ pc[g] = "rename"
  /\ IF tmp = None
     THEN Fails(g) /\ UNCHANGED <<path, tmp, latest>>
     ELSE /\ path' = tmp /\ tmp' = None
          /\ latest' = body[g]
          /\ GoesOn(g, "remember")
  /\ UNCHANGED <<content, memory, applied, running, fd, edits, crashes, overlap, several>>

-----------------------------------------------------------------------------
(* GET /config/reload, and what both requests do with the configuration *)

\* Load leaves a placeholder where there is no file, if it can, before the admin server
\* is up.
Placeholder ==
  \/ UNCHANGED <<path, content, latest>>
  \/ \E i \in Free :
       /\ path' = i /\ content' = [content EXCEPT ![i] = NoServices]
       /\ latest' = NoServices

\* Load reads the whole file, or finds none; what does not parse is answered with an
\* error and changes nothing.
Reload(g) ==
  /\ running /\ g \in Handlers /\ pc[g] = "idle"
  /\ IF path = None
     THEN Begins(g, "placeholder") /\ body' = [body EXCEPT ![g] = NoServices]
     ELSE /\ content[path] # Torn
          /\ Begins(g, "remember") /\ body' = [body EXCEPT ![g] = content[path]]
  /\ UNCHANGED <<files, memory, applied, running, fd, merged, edits, crashes, latest,
                 overlap, failed>>

\* os.WriteFile truncates what another request has put in place since the read.
Overwrites ==
  /\ path # None
  /\ content' = [content EXCEPT ![path] = NoServices] /\ overlap' = TRUE
  /\ UNCHANGED <<path, latest>>

CreatePlaceholder(g) ==
  /\ running /\ pc[g] = "placeholder"
  /\ \/ path = None /\ Placeholder /\ UNCHANGED overlap
     \/ Overwrites
     \/ UNCHANGED <<path, content, latest, overlap>>
  /\ GoesOn(g, "remember")
  /\ UNCHANGED <<tmp, memory, applied, running, fd, edits, crashes, several>>

ForgetConfig(g) == UNCHANGED memory  \* regression: the file changes, the memory does not
SetConfig(g) == memory' = body[g]

\* s.config = cfg under the lock, at the end of Save and of Load.
Remember(g) ==
  /\ running /\ pc[g] = "remember"
  /\ SetConfig(g)
  /\ Goto(g, "discover") /\ Locals(g, None, None)
  /\ UNCHANGED <<files, applied, running, fd, edits, crashes, history>>

\* discoverAndApply: Discover may fail; store.Apply merges the configuration that is
\* in memory by then.
Discover(g) ==
  /\ running /\ pc[g] = "discover"
  /\ \/ Fails(g)
     \/ Goto(g, "apply") /\ Locals(g, None, memory) /\ UNCHANGED failed
  /\ UNCHANGED <<files, memory, applied, running, fd, edits, crashes, latest, overlap, several>>

\* srv.Update, then the answer.
Apply(g) ==
  /\ running /\ pc[g] = "apply"
  /\ applied' = merged[g]
  /\ Goto(g, "idle") /\ Locals(g, None, None)
  /\ UNCHANGED <<files, memory, running, fd, edits, crashes, history>>

-----------------------------------------------------------------------------
(* The user and the process *)

\* The user edits the file directly; an editor writes a whole file.
Edit(c) ==
  /\ edits < MaxEdits /\ edits' = edits + 1
  /\ path # None
  /\ content' = [content EXCEPT ![path] = c]
  /\ latest' = c
  /\ UNCHANGED <<path, tmp, memory, applied, running, requests, crashes, overlap, several, failed>>

\* The process ends between any two steps; what is open is closed.
Crash ==
  /\ running /\ crashes < MaxCrashes /\ crashes' = crashes + 1
  /\ running' = FALSE
  /\ pc' = [g \in Goroutines |-> "idle"] /\ fd' = [g \in Goroutines |-> None]
  /\ body' = [g \in Goroutines |-> None] /\ merged' = [g \in Goroutines |-> None]
  /\ memory' = NoServices /\ applied' = NoServices
  /\ UNCHANGED <<files, edits, history>>

\* main: Load, then the admin server, then the initial discovery.  A file that does
\* not parse ends the process at once.
Start ==
  /\ ~running
  /\ path # None => content[path] # Torn
  /\ running' = TRUE
  /\ IF path = None
     THEN Placeholder /\ memory' = NoServices
     ELSE /\ memory' = content[path]
          /\ UNCHANGED <<path, content, latest>>
  /\ Goto(Main, "discover")
  /\ several' = FALSE /\ failed' = FALSE
  /\ UNCHANGED <<tmp, applied, body, fd, merged, edits, crashes, overlap>>

-----------------------------------------------------------------------------

Request(g) ==
  \/ \E c \in Configs : Update(g, c)
  \/ Reload(g) \/ CreatePlaceholder(g)
  \/ SaveOpen(g) \/ SaveWrite(g) \/ SaveWriteFails(g) \/ SaveRename(g)
  \/ Remember(g) \/ Discover(g) \/ Apply(g)

Next ==
  \/ \E g \in Goroutines : Request(g)
  \/ \E c \in Configs : Edit(c)
  \/ Crash \/ Start

Init ==
  /\ content = [i \in Inodes |-> NoServices]
  /\ path = None /\ tmp = None
  /\ memory = NoServices /\ applied = NoServices /\ running = FALSE
  /\ pc = [g \in Goroutines |-> "idle"] /\ fd = [g \in Goroutines |-> None]
  /\ body = [g \in Goroutines |-> None] /\ merged = [g \in Goroutines |-> None]
  /\ edits = 0 /\ crashes = 0
  /\ latest = NoServices /\ overlap = FALSE /\ several = FALSE /\ failed = FALSE

Spec == Init /\ [][Next]_vars

-----------------------------------------------------------------------------
(* Properties *)

\* Every variable keeps its type, a goroutine that writes has a file open, and the
\* config file and the temporary file are never one inode.
TypeOK ==
  /\ content \in [Inodes -> Contents]
  /\ path \in Inodes \cup {None} /\ tmp \in Inodes \cup {None}
  /\ path = tmp => path = None
  /\ memory \in Configs \cup {NoServices} /\ applied \in Configs \cup {NoServices}
  /\ running \in BOOLEAN
  /\ pc \in [Goroutines -> {"idle", "open", "write", "rename", "placeholder", "remember",
                            "discover", "apply"}]
  /\ body \in [Goroutines -> Configs \cup {NoServices, None}]
  /\ merged \in [Goroutines -> Configs \cup {NoServices, None}]
  /\ fd \in [Goroutines -> Inodes \cup {None}]
  /\ \A g \in Goroutines : (pc[g] = "write") = (fd[g] # None)
  /\ edits \in Nat /\ crashes \in Nat
  /\ latest \in Configs \cup {NoServices}
  /\ {overlap, several, failed} \subseteq BOOLEAN

\* As long as no two Saves have overlapped and no placeholder has met a file, the config
\* file is at every moment, also after a crash between two steps or a failed write,
\* exactly the configuration last put in place: never cut short, never a mixture.
FileIsLatest == ~overlap /\ path # None => content[path] = latest

\* Requests that follow one another without failing leave the file, the memory and
\* the proxy with one configuration, also when the first of them follows a crash.
SequentialAgrees ==
  running /\ Idle /\ ~several /\ ~failed /\ ~overlap /\ edits = 0
    => memory = latest /\ applied = latest

-----------------------------------------------------------------------------
(* What the documentation says and the code does not do *)

\* README_CONFIG.md:225, "The file is written atomically".
FileWhole == path # None => content[path] # Torn

\* store.go:66, "If the file does not exist, an empty placeholder is created": one that
\* a Save or the user has made since the read is left alone.
PlaceholderOnlyIfMissing ==
  [][\A g \in Goroutines :
       pc[g] = "placeholder" /\ pc'[g] = "remember" /\ path # None
         => content'[path] = content[path]]_vars

\* README_CONFIG.md:224, an update "overwrites the YAML file on disk, and re-applies
\* the config to the running proxy": when every request has been answered without an
\* error the proxy runs the configuration last put in place.
AppliedIsLatest == running /\ Idle /\ ~failed /\ edits = 0 => applied = latest

\* README_CONFIG.md:248, when "a service entry fails validation, the file is not
\* modified"; its example is an entry that must "specify at least one port".
PortlessRefused == edits = 0 /\ path # None => content[path] \notin Portless
=============================================================================
