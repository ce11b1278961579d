-------------------------- MODULE ConfigStore_proofs --------------------------
(* Theorems about ConfigStore, for any configurations, goroutines, inodes,   *)
(* edits and crashes.                                                        *)
EXTENDS ConfigStore, TLAPS

Kept == Configs \cup {NoServices}
Labels == {"idle", "open", "write", "rename", "placeholder", "remember", "discover", "apply"}

\* A goroutine that saves, remembers or applies has a configuration in hand.
LocalsOK ==
  \A g \in Goroutines :
    /\ pc[g] \in {"open", "write", "rename"} => body[g] \in Configs
    /\ pc[g] \in {"placeholder", "remember"} => body[g] \in Kept
    /\ pc[g] = "apply" => merged[g] \in Kept

\* While Saves do not overlap, the one at work on the files has the temporary file to
\* itself: empty when it is opened, whole when it is renamed.
SaverOK ==
  ~overlap =>
    /\ \A g, h \in Goroutines : AtFiles(g) /\ AtFiles(h) => g = h
    /\ \A g \in Goroutines : AtFiles(g) =>
         /\ tmp # None
         /\ pc[g] = "write" => fd[g] = tmp /\ content[tmp] = NoServices
         /\ pc[g] = "rename" => content[tmp] = body[g]

\* Without a file nothing has been put in place.
NoFileOK == path = None => latest = NoServices

\* A process that is down has no goroutines.
StoppedOK == ~running => Idle

FileInv == TypeOK /\ LocalsOK /\ SaverOK /\ NoFileOK /\ StoppedOK /\ FileIsLatest

\* As long as requests follow one another there is one goroutine at most, ...
AloneOK == ~several => \A g, h \in Goroutines : pc[g] # "idle" /\ pc[h] # "idle" => g = h

\* ... and what it carries from the file to the memory to the proxy is the latest.
InTurn ==
  running /\ ~several /\ ~failed /\ ~overlap /\ edits = 0 =>
    /\ \A g \in Goroutines :
         /\ pc[g] = "placeholder" => path = None /\ body[g] = NoServices
         /\ pc[g] = "remember" => body[g] = latest
         /\ pc[g] \in {"discover", "apply"} => memory = latest
         /\ pc[g] = "apply" => merged[g] = latest
    /\ Idle => memory = latest /\ applied = latest

TurnInv == AloneOK /\ InTurn

-----------------------------------------------------------------------------
(* The file *)

\* Nothing is there.
LEMMA InitFile == Init => FileInv
<1> SUFFICES ASSUME Init PROVE FileInv
  OBVIOUS
<1>1. /\ content \in [Inodes -> Contents]
      /\ pc \in [Goroutines -> Labels] /\ fd \in [Goroutines -> Inodes \cup {None}]
      /\ body \in [Goroutines -> Configs \cup {NoServices, None}]
      /\ merged \in [Goroutines -> Configs \cup {NoServices, None}]
  BY DEF Init, Contents, Labels
<1>2. path = None /\ tmp = None /\ memory = NoServices /\ applied = NoServices
      /\ running = FALSE /\ edits = 0 /\ crashes = 0 /\ latest = NoServices
      /\ overlap = FALSE /\ several = FALSE /\ failed = FALSE
      /\ \A g \in Goroutines : pc[g] = "idle" /\ fd[g] = None
  BY DEF Init
<1>3. TypeOK
  BY <1>1, <1>2 DEF TypeOK, Labels
<1> QED
  BY <1>2, <1>3 DEF FileInv, LocalsOK, SaverOK, NoFileOK, StoppedOK, FileIsLatest, Idle, AtFiles

\* The inode taken for a new file is neither file's, and nobody has it open.
LEMMA FreeOK ==
  ASSUME NEW i \in Free
  PROVE  i \in Inodes /\ i # path /\ i # tmp /\ i # None /\ \A g \in Goroutines : fd[g] # i
BY NamesAssumption DEF Free

\* An update is validated and begins.
LEMMA UpdateFile ==
  ASSUME FileInv, NEW g \in Goroutines, NEW c \in Configs, Update(g, c)
  PROVE  FileInv'
<1>1. CASE Accepted(c)
  <2>1. /\ pc[g] = "idle" /\ running
        /\ pc' = [pc EXCEPT ![g] = "open"] /\ body' = [body EXCEPT ![g] = c]
        /\ several' = (several \/ ~Idle)
        /\ UNCHANGED <<files, memory, applied, running, fd, merged, edits, crashes,
                       latest, overlap, failed>>
    BY <1>1 DEF Update, Begins, Goto
  <2>2. several' \in BOOLEAN
    BY <2>1
  <2>3. TypeOK'
    BY <2>1, <2>2 DEF FileInv, TypeOK, files
  <2>4. \A h \in Goroutines : AtFiles(h)' => h # g /\ AtFiles(h) /\ pc'[h] = pc[h] /\ body'[h] = body[h]
    BY <2>1 DEF FileInv, TypeOK, AtFiles
  <2>5. LocalsOK' /\ StoppedOK'
    BY <2>1 DEF FileInv, LocalsOK, StoppedOK, TypeOK
  <2>6. SaverOK'
    BY <2>1, <2>4 DEF FileInv, SaverOK, files
  <2>7. NoFileOK' /\ FileIsLatest'
    BY <2>1 DEF FileInv, NoFileOK, FileIsLatest, files
  <2> QED
    BY <2>3, <2>5, <2>6, <2>7 DEF FileInv
<1>2. CASE ~Accepted(c)
  <2>1. UNCHANGED vars
    BY <1>2 DEF Update, vars, files, requests, history
  <2> QED
    BY <2>1 DEF vars, files, requests, history, FileInv, TypeOK, LocalsOK, SaverOK, NoFileOK,
                StoppedOK, FileIsLatest, Idle, AtFiles
<1> QED
  BY <1>1, <1>2

\* The temporary file is opened empty, by one Save or by several.
LEMMA OpenFile ==
  ASSUME FileInv, NEW g \in Goroutines, SaveOpen(g)
  PROVE  FileInv'
<1>1. PICK i \in IF tmp = None THEN Free ELSE {tmp} :
        /\ tmp' = i /\ path' = path
        /\ fd' = [fd EXCEPT ![g] = i]
        /\ content' = [content EXCEPT ![i] = NoServices]
  BY DEF SaveOpen, OpenTmp
<1>2. i \in Inodes /\ i # None /\ (path # None => i # path)
  BY <1>1, FreeOK, NamesAssumption DEF FileInv, TypeOK
<1>3. /\ running /\ pc[g] = "open" /\ pc' = [pc EXCEPT ![g] = "write"]
      /\ overlap' = (overlap \/ \E h \in Goroutines : AtFiles(h))
      /\ UNCHANGED <<memory, applied, running, body, merged, edits, crashes, latest,
                     several, failed>>
  BY DEF SaveOpen, Goto
<1>4. overlap' \in BOOLEAN
  BY <1>3
<1>5. TypeOK'
  BY <1>1, <1>2, <1>3, <1>4 DEF FileInv, TypeOK, Contents
<1>6. LocalsOK' /\ StoppedOK'
  BY <1>3 DEF FileInv, LocalsOK, StoppedOK, TypeOK
<1>7. SaverOK'
  <2> SUFFICES ASSUME ~overlap' PROVE SaverOK'
    BY DEF SaverOK
  <2>1. \A h \in Goroutines : ~AtFiles(h)
    BY <1>3
  <2>2. \A h \in Goroutines : AtFiles(h)' => h = g
    BY <1>3, <2>1 DEF FileInv, TypeOK, AtFiles
  <2>3. pc'[g] = "write" /\ fd'[g] = tmp' /\ content'[tmp'] = NoServices /\ tmp' # None
    BY <1>1, <1>2, <1>3 DEF FileInv, TypeOK
  <2> QED
    BY <2>2, <2>3 DEF SaverOK
<1>8. NoFileOK' /\ FileIsLatest'
  BY <1>1, <1>2, <1>3 DEF FileInv, TypeOK, NoFileOK, FileIsLatest
<1> QED
  BY <1>5, <1>6, <1>7, <1>8 DEF FileInv

\* Written to from its start, an empty file holds what was written.
LEMMA WrittenOK ==
  ASSUME NEW c \in Configs, NEW old \in Contents
  PROVE  Written(c, old) \in Contents /\ Written(c, NoServices) = c
BY DEF Written, Contents

\* The write succeeds, or fails and leaves what it likes in the temporary file.
LEMMA WriteFile ==
  ASSUME FileInv, NEW g \in Goroutines, SaveWrite(g) \/ SaveWriteFails(g)
  PROVE  FileInv'
<1>1. /\ running /\ pc[g] = "write" /\ fd[g] \in Inodes /\ body[g] \in Configs
      /\ ~overlap => fd[g] = tmp
      /\ content[fd[g]] \in Contents
  BY NamesAssumption DEF SaveWrite, SaveWriteFails, FileInv, TypeOK, LocalsOK, SaverOK, AtFiles
<1>2. /\ fd' = [fd EXCEPT ![g] = None]
      /\ UNCHANGED <<path, tmp, memory, applied, running, edits, crashes, latest, overlap, several>>
  BY DEF SaveWrite, SaveWriteFails
<1>3. PICK y \in Contents : content' = [content EXCEPT ![fd[g]] = y]
  <2>1. CASE SaveWrite(g)
    BY <1>1, <2>1, WrittenOK DEF SaveWrite, FileInv, TypeOK
  <2>2. CASE SaveWriteFails(g)
    <3>1. Torn \in Contents /\ content = [content EXCEPT ![fd[g]] = content[fd[g]]]
      BY DEF Contents, FileInv, TypeOK
    <3> QED
      BY <1>1, <2>2, <3>1 DEF SaveWriteFails
  <2> QED
    BY <2>1, <2>2
<1>4. NoFileOK' /\ FileIsLatest'
  <2>1. ~overlap /\ path # None => content'[path] = content[path]
    BY <1>1, <1>3 DEF FileInv, TypeOK
  <2> QED
    BY <1>2, <2>1 DEF FileInv, NoFileOK, FileIsLatest
<1>5. CASE SaveWrite(g)
  <2>1. /\ pc' = [pc EXCEPT ![g] = "rename"] /\ UNCHANGED <<failed, body, merged>>
        /\ content' = [content EXCEPT ![fd[g]] = Written(body[g], content[fd[g]])]
    BY <1>5 DEF SaveWrite, GoesOn, Goto, FileInv, TypeOK
  <2>2. TypeOK'
    BY <1>1, <1>2, <1>3, <2>1 DEF FileInv, TypeOK
  <2>3. LocalsOK' /\ StoppedOK'
    BY <1>1, <1>2, <2>1 DEF FileInv, LocalsOK, StoppedOK, TypeOK
  <2>4. SaverOK'
    <3> SUFFICES ASSUME ~overlap PROVE SaverOK'
      BY <1>2 DEF SaverOK
    <3>1. \A h \in Goroutines : AtFiles(h)' => h = g
      BY <1>1, <2>1 DEF FileInv, SaverOK, TypeOK, AtFiles
    <3>2. fd[g] = tmp /\ tmp # None /\ content[tmp] = NoServices
      BY <1>1 DEF FileInv, SaverOK, AtFiles
    <3>3. content'[tmp] = body[g]
      BY <1>1, <2>1, <3>2, WrittenOK DEF FileInv, TypeOK
    <3>4. pc'[g] = "rename"
      BY <2>1 DEF FileInv, TypeOK
    <3> QED
      BY <1>2, <2>1, <3>1, <3>2, <3>3, <3>4 DEF SaverOK
  <2> QED
    BY <1>4, <2>2, <2>3, <2>4 DEF FileInv
<1>6. CASE SaveWriteFails(g)
  <2>1. /\ pc' = [pc EXCEPT ![g] = "idle"] /\ failed' = TRUE
        /\ body' = [body EXCEPT ![g] = None] /\ merged' = [merged EXCEPT ![g] = None]
    BY <1>6 DEF SaveWriteFails, WriteError, Fails, Goto, Locals
  <2>2. TypeOK'
    BY <1>1, <1>2, <1>3, <2>1 DEF FileInv, TypeOK
  <2>3. LocalsOK' /\ StoppedOK'
    BY <1>1, <1>2, <2>1 DEF FileInv, LocalsOK, StoppedOK, TypeOK
  <2>4. SaverOK'
    <3> SUFFICES ASSUME ~overlap PROVE SaverOK'
      BY <1>2 DEF SaverOK
    <3>1. \A h \in Goroutines : ~AtFiles(h)'
      BY <1>1, <2>1 DEF FileInv, SaverOK, TypeOK, AtFiles
    <3> QED
      BY <3>1 DEF SaverOK
  <2> QED
    BY <1>4, <2>2, <2>3, <2>4 DEF FileInv
<1> QED
  BY <1>5, <1>6

\* The rename puts a whole configuration in place, or fails.
LEMMA RenameFile ==
  ASSUME FileInv, NEW g \in Goroutines, SaveRename(g)
  PROVE  FileInv'
<1>1. /\ running /\ pc[g] = "rename" /\ body[g] \in Configs
      /\ UNCHANGED <<content, memory, applied, running, fd, edits, crashes, overlap, several>>
  BY DEF SaveRename, FileInv, LocalsOK
<1>2. ~overlap => tmp # None /\ content[tmp] = body[g]
                  /\ \A h \in Goroutines : AtFiles(h) => h = g
  BY <1>1 DEF FileInv, SaverOK, AtFiles
<1>3. CASE tmp = None
  <2>1. /\ pc' = [pc EXCEPT ![g] = "idle"] /\ failed' = TRUE
        /\ body' = [body EXCEPT ![g] = None] /\ merged' = [merged EXCEPT ![g] = None]
        /\ UNCHANGED <<path, tmp, latest>>
    BY <1>3 DEF SaveRename, Fails, Goto, Locals
  <2>2. TypeOK'
    BY <1>1, <2>1 DEF FileInv, TypeOK
  <2>3. LocalsOK' /\ StoppedOK'
    BY <1>1, <2>1 DEF FileInv, LocalsOK, StoppedOK, TypeOK
  <2>4. overlap
    BY <1>2, <1>3
  <2> QED
    BY <1>1, <2>1, <2>2, <2>3, <2>4 DEF FileInv, SaverOK, NoFileOK, FileIsLatest
<1>4. CASE tmp # None
  <2>1. /\ pc' = [pc EXCEPT ![g] = "remember"] /\ UNCHANGED <<failed, body, merged>>
        /\ path' = tmp /\ tmp' = None /\ latest' = body[g]
    BY <1>4 DEF SaveRename, GoesOn, Goto
  <2>2. TypeOK'
    BY <1>1, <1>4, <2>1 DEF FileInv, TypeOK
  <2>3. LocalsOK' /\ StoppedOK'
    BY <1>1, <2>1 DEF FileInv, LocalsOK, StoppedOK, TypeOK, Kept
  <2>4. SaverOK'
    <3> SUFFICES ASSUME ~overlap PROVE SaverOK'
      BY <1>1 DEF SaverOK
    <3>1. \A h \in Goroutines : ~AtFiles(h)'
      BY <1>2, <2>1 DEF FileInv, TypeOK, AtFiles
    <3> QED
      BY <3>1 DEF SaverOK
  <2>5. NoFileOK' /\ FileIsLatest'
    BY <1>1, <1>2, <1>4, <2>1 DEF NoFileOK, FileIsLatest
  <2> QED
    BY <2>2, <2>3, <2>4, <2>5 DEF FileInv
<1> QED
  BY <1>3, <1>4

\* A placeholder takes the place of a file that is not there, or does not.
LEMMA PlaceholderOK ==
  ASSUME FileInv, path = None, Placeholder
  PROVE  /\ content' \in [Inodes -> Contents] /\ path' \in Inodes \cup {None}
         /\ latest' = NoServices /\ (path' # None => content'[path'] = NoServices)
         /\ tmp # None => path' # tmp /\ content'[tmp] = content[tmp]
<1>1. CASE UNCHANGED <<path, content, latest>>
  BY <1>1 DEF FileInv, TypeOK, NoFileOK
<1>2. ASSUME NEW i \in Free, path' = i, content' = [content EXCEPT ![i] = NoServices],
             latest' = NoServices
      PROVE  /\ content' \in [Inodes -> Contents] /\ path' \in Inodes \cup {None}
             /\ latest' = NoServices /\ (path' # None => content'[path'] = NoServices)
             /\ tmp # None => path' # tmp /\ content'[tmp] = content[tmp]
  <2>1. i \in Inodes /\ i # tmp /\ NoServices \in Contents
    BY FreeOK DEF Contents
  <2> QED
    BY <1>2, <2>1 DEF FileInv, TypeOK
<1> QED
  BY <1>1, <1>2 DEF Placeholder

\* A goroutine that steps outside the files leaves the Saves their files.
LEMMA SaverKept ==
  ASSUME FileInv, UNCHANGED <<tmp, fd>>, ~overlap' => ~overlap,
         tmp # None => content'[tmp] = content[tmp],
         \A h \in Goroutines : AtFiles(h)' => pc'[h] = pc[h] /\ body'[h] = body[h]
  PROVE  SaverOK'
<1> SUFFICES ASSUME ~overlap' PROVE SaverOK'
  BY DEF SaverOK
<1>1. \A h \in Goroutines : AtFiles(h)' => AtFiles(h)
  BY DEF AtFiles
<1>2. \A h \in Goroutines : AtFiles(h)' => tmp # None /\ content'[tmp] = content[tmp]
  BY <1>1 DEF FileInv, SaverOK
<1> QED
  BY <1>1, <1>2 DEF FileInv, SaverOK

\* A reload reads what is in the file, or finds none.
LEMMA ReloadFile ==
  ASSUME FileInv, NEW g \in Goroutines, Reload(g)
  PROVE  FileInv'
<1>1. /\ running /\ pc[g] = "idle" /\ several' = (several \/ ~Idle)
      /\ UNCHANGED <<files, memory, applied, running, fd, merged, edits, crashes, latest,
                     overlap, failed>>
  BY DEF Reload, Begins
<1>2. several' \in BOOLEAN
  BY <1>1
<1>3. PICK l \in {"placeholder", "remember"}, b \in Kept :
        pc' = [pc EXCEPT ![g] = l] /\ body' = [body EXCEPT ![g] = b]
  <2>1. CASE path = None
    BY <2>1 DEF Reload, Begins, Goto, Kept
  <2>2. CASE path # None
    BY <2>2 DEF Reload, Begins, Goto, FileInv, TypeOK, Contents, Kept
  <2> QED
    BY <2>1, <2>2
<1>4. TypeOK'
  BY <1>1, <1>2, <1>3 DEF FileInv, TypeOK, Kept, files
<1>5. LocalsOK' /\ StoppedOK'
  BY <1>1, <1>3 DEF FileInv, LocalsOK, StoppedOK, TypeOK
<1>6. \A h \in Goroutines : AtFiles(h)' => pc'[h] = pc[h] /\ body'[h] = body[h]
  BY <1>3 DEF FileInv, TypeOK, AtFiles
<1>7. SaverOK'
  BY <1>1, <1>6, SaverKept DEF files
<1>8. NoFileOK' /\ FileIsLatest'
  BY <1>1 DEF FileInv, NoFileOK, FileIsLatest, files
<1> QED
  BY <1>4, <1>5, <1>7, <1>8 DEF FileInv

\* A placeholder is written where there is no file, or over one, or not at all.
LEMMA CreateFile ==
  ASSUME FileInv, NEW g \in Goroutines, CreatePlaceholder(g)
  PROVE  FileInv'
<1>1. /\ running /\ pc[g] = "placeholder" /\ pc' = [pc EXCEPT ![g] = "remember"]
      /\ UNCHANGED <<tmp, memory, applied, running, fd, body, merged, edits, crashes,
                     several, failed>>
  BY DEF CreatePlaceholder, GoesOn, Goto
<1>2. /\ content' \in [Inodes -> Contents] /\ path' \in Inodes \cup {None}
      /\ latest' \in Kept /\ overlap' \in BOOLEAN
      /\ path' = tmp => path' = None
      /\ ~overlap' => ~overlap /\ (tmp # None => content'[tmp] = content[tmp])
      /\ NoFileOK' /\ FileIsLatest'
  <2>1. CASE path = None /\ Placeholder /\ UNCHANGED overlap
    BY <2>1, PlaceholderOK DEF FileInv, TypeOK, NoFileOK, FileIsLatest, Kept
  <2>2. CASE Overwrites
    BY <2>2 DEF Overwrites, FileInv, TypeOK, NoFileOK, FileIsLatest, Kept, Contents
  <2>3. CASE UNCHANGED <<path, content, latest, overlap>>
    BY <2>3 DEF FileInv, TypeOK, NoFileOK, FileIsLatest, Kept
  <2> QED
    BY <2>1, <2>2, <2>3 DEF CreatePlaceholder
<1>3. TypeOK'
  BY <1>1, <1>2 DEF FileInv, TypeOK, Kept
<1>4. LocalsOK' /\ StoppedOK'
  BY <1>1 DEF FileInv, LocalsOK, StoppedOK, TypeOK
<1>5. \A h \in Goroutines : AtFiles(h)' => pc'[h] = pc[h] /\ body'[h] = body[h]
  BY <1>1 DEF FileInv, TypeOK, AtFiles
<1>6. SaverOK'
  <2>1. CASE overlap'
    BY <2>1 DEF SaverOK
  <2>2. CASE ~overlap'
    BY <1>1, <1>2, <1>5, <2>2, SaverKept
  <2> QED
    BY <2>1, <2>2
<1> QED
  BY <1>2, <1>3, <1>4, <1>6 DEF FileInv

\* The memory, the discovery and the proxy follow: the files stay as they are.
LEMMA FollowFile ==
  ASSUME FileInv, NEW g \in Goroutines, Remember(g) \/ Discover(g) \/ Apply(g)
  PROVE  FileInv'
<1>1. /\ running /\ pc[g] \in {"remember", "discover", "apply"}
      /\ UNCHANGED <<files, running, fd, edits, crashes, latest, overlap, several>>
  BY DEF Remember, Discover, Apply, history
<1>2. PICK l \in {"idle", "discover", "apply"}, m \in Kept \cup {None} :
        /\ pc' = [pc EXCEPT ![g] = l] /\ merged' = [merged EXCEPT ![g] = m]
        /\ body' = [body EXCEPT ![g] = None]
        /\ l = "apply" => m \in Kept
        /\ failed' \in BOOLEAN
  <2>1. memory \in Kept /\ failed \in BOOLEAN
    BY DEF FileInv, TypeOK, Kept
  <2> QED
    BY <2>1 DEF Remember, Discover, Apply, Goto, Locals, Fails, history
<1>3. memory' \in Kept /\ applied' \in Kept
  BY DEF Remember, SetConfig, Discover, Apply, FileInv, TypeOK, LocalsOK, Kept
<1>4. TypeOK'
  BY <1>1, <1>2, <1>3 DEF FileInv, TypeOK, Kept, files
<1>5. LocalsOK' /\ StoppedOK'
  BY <1>1, <1>2 DEF FileInv, LocalsOK, StoppedOK, TypeOK
<1>6. \A h \in Goroutines : AtFiles(h)' => pc'[h] = pc[h] /\ body'[h] = body[h]
  BY <1>1, <1>2 DEF FileInv, TypeOK, AtFiles
<1>7. SaverOK'
  BY <1>1, <1>6, SaverKept DEF files
<1>8. NoFileOK' /\ FileIsLatest'
  BY <1>1 DEF FileInv, NoFileOK, FileIsLatest, files
<1> QED
  BY <1>4, <1>5, <1>7, <1>8 DEF FileInv

\* An edit is the latest configuration, and not of the temporary file.
LEMMA EditFile ==
  ASSUME FileInv, NEW c \in Configs, Edit(c)
  PROVE  FileInv'
<1>1. /\ path \in Inodes /\ path # tmp /\ path # None
      /\ content' = [content EXCEPT ![path] = c] /\ latest' = c /\ edits' = edits + 1
      /\ UNCHANGED <<path, tmp, memory, applied, running, pc, body, fd, merged, crashes,
                     overlap, several, failed>>
  BY DEF Edit, FileInv, TypeOK, requests
<1>2. TypeOK'
  BY <1>1 DEF FileInv, TypeOK, Contents
<1>3. tmp # None => content'[tmp] = content[tmp]
  BY <1>1 DEF FileInv, TypeOK
<1>4. SaverOK'
  BY <1>1, <1>3, SaverKept
<1>5. LocalsOK' /\ StoppedOK'
  BY <1>1 DEF FileInv, LocalsOK, StoppedOK, Idle
<1>6. NoFileOK' /\ FileIsLatest'
  BY <1>1 DEF FileInv, TypeOK, NoFileOK, FileIsLatest
<1> QED
  BY <1>2, <1>4, <1>5, <1>6 DEF FileInv

\* A crash leaves the files as they are, and nobody at work on them.
LEMMA CrashFile ==
  ASSUME FileInv, Crash
  PROVE  FileInv'
<1>1. /\ \A g \in Goroutines : pc'[g] = "idle" /\ fd'[g] = None
      /\ pc' \in [Goroutines -> Labels] /\ fd' \in [Goroutines -> Inodes \cup {None}]
      /\ body' \in [Goroutines -> Configs \cup {NoServices, None}]
      /\ merged' \in [Goroutines -> Configs \cup {NoServices, None}]
  BY DEF Crash, Labels
<1>2. /\ running' = FALSE /\ memory' = NoServices /\ applied' = NoServices
      /\ crashes' = crashes + 1
      /\ UNCHANGED <<content, path, tmp, edits, latest, overlap, several, failed>>
  BY DEF Crash, files, history
<1>3. TypeOK'
  <2>1. \A g \in Goroutines : (pc'[g] = "write") = (fd'[g] # None)
    BY <1>1
  <2>2. /\ content' \in [Inodes -> Contents]
        /\ path' \in Inodes \cup {None} /\ tmp' \in Inodes \cup {None}
        /\ path' = tmp' => path' = None
        /\ memory' \in Configs \cup {NoServices} /\ applied' \in Configs \cup {NoServices}
        /\ latest' \in Configs \cup {NoServices}
    BY <1>2 DEF FileInv, TypeOK
  <2>3. edits' \in Nat /\ crashes' \in Nat
    BY <1>2 DEF FileInv, TypeOK
  <2>4. running' \in BOOLEAN
    BY <1>2
  <2>5. {overlap', several', failed'} \subseteq BOOLEAN
    BY <1>2 DEF FileInv, TypeOK
  <2> QED
    BY <1>1, <2>1, <2>2, <2>3, <2>4, <2>5 DEF TypeOK, Labels
<1>4. LocalsOK' /\ SaverOK' /\ StoppedOK'
  BY <1>1 DEF LocalsOK, SaverOK, StoppedOK, Idle, AtFiles
<1>5. NoFileOK' /\ FileIsLatest'
  BY <1>2 DEF FileInv, NoFileOK, FileIsLatest
<1> QED
  BY <1>3, <1>4, <1>5 DEF FileInv

\* A start reads what is in the file, or finds none.
LEMMA StartFile ==
  ASSUME FileInv, Start
  PROVE  FileInv'
<1>1. /\ ~running /\ running' = TRUE
      /\ pc' = [pc EXCEPT ![Main] = "discover"]
      /\ several' = FALSE /\ failed' = FALSE
      /\ UNCHANGED <<tmp, applied, body, fd, merged, edits, crashes, overlap>>
  BY DEF Start, Goto
<1>2. /\ content' \in [Inodes -> Contents] /\ path' \in Inodes \cup {None}
      /\ latest' \in Kept /\ memory' \in Kept
      /\ tmp # None => content'[tmp] = content[tmp]
      /\ path' = tmp => path' = None
      /\ NoFileOK' /\ FileIsLatest'
  <2>1. CASE path = None
    BY <1>1, <2>1, PlaceholderOK DEF Start, NoFileOK, FileIsLatest, Kept
  <2>2. CASE path # None
    BY <1>1, <2>2 DEF Start, FileInv, TypeOK, NoFileOK, FileIsLatest, Kept, Contents
  <2> QED
    BY <2>1, <2>2
<1>3. \A h \in Goroutines : pc[h] = "idle" /\ fd[h] = None
  BY <1>1 DEF FileInv, StoppedOK, Idle, TypeOK
<1>4. pc' \in [Goroutines -> Labels] /\ \A h \in Goroutines : pc'[h] \in {"idle", "discover"}
  BY <1>1, <1>3 DEF FileInv, TypeOK, Labels
<1>5. TypeOK'
  BY <1>1, <1>2, <1>3, <1>4 DEF FileInv, TypeOK, Kept, Labels
<1>6. LocalsOK' /\ StoppedOK' /\ SaverOK'
  BY <1>1, <1>4 DEF LocalsOK, StoppedOK, SaverOK, AtFiles
<1> QED
  BY <1>2, <1>5, <1>6 DEF FileInv

LEMMA NextFile == FileInv /\ [Next]_vars => FileInv'
<1> SUFFICES ASSUME FileInv, [Next]_vars PROVE FileInv'
  OBVIOUS
<1>1. ASSUME NEW g \in Goroutines, Request(g) PROVE FileInv'
  BY <1>1, UpdateFile, ReloadFile, CreateFile, OpenFile, WriteFile, RenameFile, FollowFile DEF Request
<1>2. ASSUME NEW c \in Configs, Edit(c) PROVE FileInv'
  BY <1>2, EditFile
<1>3. CASE UNCHANGED vars
  BY <1>3 DEF vars, files, requests, history, FileInv, TypeOK, LocalsOK, SaverOK, NoFileOK,
              StoppedOK, FileIsLatest, Idle, AtFiles
<1> QED
  BY <1>1, <1>2, <1>3, CrashFile, StartFile DEF Next

\* The inductive invariant of the files holds.
THEOREM FileInvCorrect == Spec => []FileInv
<1>1. Init => FileInv
  BY InitFile
<1>2. FileInv /\ [Next]_vars => FileInv'
  BY NextFile
<1> QED
  BY <1>1, <1>2, PTL DEF Spec

-----------------------------------------------------------------------------
(* Requests that follow one another *)

\* The conditions under which the memory and the proxy must follow the file.
InSequence == running /\ ~several /\ ~failed /\ ~overlap /\ edits = 0

\* Nothing runs.
LEMMA InitTurn == Init => TurnInv
BY DEF Init, TurnInv, AloneOK, InTurn

\* The goroutine that goes on is the only one.
LEMMA OnlyOne ==
  ASSUME FileInv, AloneOK, ~several, NEW g \in Goroutines, pc[g] # "idle",
         NEW l \in Labels, pc' = [pc EXCEPT ![g] = l]
  PROVE  pc'[g] = l /\ \A h \in Goroutines : h # g => pc[h] = "idle" /\ pc'[h] = "idle"
BY DEF FileInv, TypeOK, AloneOK

\* The goroutine that begins is the only one, or several are at work.
LEMMA BeginsTurn ==
  ASSUME FileInv, AloneOK, NEW g \in Goroutines, pc[g] = "idle", NEW l \in Labels, Begins(g, l)
  PROVE  /\ AloneOK'
         /\ ~several' => /\ ~several /\ Idle
                         /\ pc'[g] = l /\ \A h \in Goroutines : h # g => pc'[h] = "idle"
BY DEF FileInv, TypeOK, AloneOK, Begins, Goto, Idle

\* A request that begins takes nothing to the memory but what the file holds.
LEMMA BeginTurn ==
  ASSUME FileInv, TurnInv, NEW g \in Goroutines,
         Reload(g) \/ \E c \in Configs : Update(g, c)
  PROVE  TurnInv'
<1>1. CASE \E c \in Configs : Update(g, c)
  <2>1. PICK c \in Configs : Update(g, c)
    BY <1>1
  <2>2. CASE Accepted(c)
    <3>1. /\ pc[g] = "idle" /\ Begins(g, "open") /\ "open" \in Labels
          /\ UNCHANGED <<running, failed, overlap, edits, memory, applied, merged, latest>>
      BY <2>1, <2>2 DEF Update, Labels
    <3>2. AloneOK' /\ (~several' => /\ pc'[g] = "open"
                                    /\ \A h \in Goroutines : h # g => pc'[h] = "idle")
      BY <3>1, BeginsTurn DEF TurnInv
    <3> QED
      BY <3>2 DEF TurnInv, InTurn, Idle
  <2>3. CASE ~Accepted(c)
    <3>1. UNCHANGED <<running, several, failed, overlap, edits, pc, body, merged, memory,
                      applied, latest, path>>
      BY <2>1, <2>3 DEF Update, files
    <3> QED
      BY <3>1 DEF TurnInv, AloneOK, InTurn, Idle
  <2> QED
    BY <2>2, <2>3
<1>2. CASE Reload(g)
  <2>1. /\ pc[g] = "idle"
        /\ UNCHANGED <<running, failed, overlap, edits, memory, applied, merged, path, latest>>
    BY <1>2 DEF Reload, files
  <2>2. CASE path = None
    <3>1. Begins(g, "placeholder") /\ "placeholder" \in Labels /\ body'[g] = NoServices
      BY <1>2, <2>2 DEF Reload, Labels, FileInv, TypeOK
    <3>2. AloneOK' /\ (~several' => /\ pc'[g] = "placeholder"
                                    /\ \A h \in Goroutines : h # g => pc'[h] = "idle")
      BY <2>1, <3>1, BeginsTurn DEF TurnInv
    <3> QED
      BY <2>1, <2>2, <3>1, <3>2 DEF TurnInv, InTurn, Idle
  <2>3. CASE path # None
    <3>1. /\ Begins(g, "remember") /\ "remember" \in Labels
          /\ ~overlap => body'[g] = latest
      BY <1>2, <2>3 DEF Reload, Labels, FileInv, FileIsLatest, TypeOK
    <3>2. AloneOK' /\ (~several' => /\ pc'[g] = "remember"
                                    /\ \A h \in Goroutines : h # g => pc'[h] = "idle")
      BY <2>1, <3>1, BeginsTurn DEF TurnInv
    <3> QED
      BY <2>1, <3>1, <3>2 DEF TurnInv, InTurn, Idle
  <2> QED
    BY <2>2, <2>3
<1> QED
  BY <1>1, <1>2

\* With nobody else at work there is still no file when the placeholder is written.
LEMMA CreateTurn ==
  ASSUME FileInv, TurnInv, NEW g \in Goroutines, CreatePlaceholder(g)
  PROVE  TurnInv'
<1>1. /\ running /\ pc[g] = "placeholder" /\ pc' = [pc EXCEPT ![g] = "remember"]
      /\ "remember" \in Labels
      /\ UNCHANGED <<running, several, failed, edits, body>>
      /\ ~overlap' => ~overlap
  BY DEF CreatePlaceholder, Overwrites, GoesOn, Goto, Labels
<1>2. ~several => pc'[g] = "remember" /\ \A h \in Goroutines : h # g => pc'[h] = "idle"
  BY <1>1, OnlyOne DEF TurnInv
<1>3. AloneOK'
  BY <1>1, <1>2 DEF AloneOK
<1>4. InSequence' => body'[g] = latest'
  <2> SUFFICES ASSUME InSequence' PROVE body'[g] = latest'
    OBVIOUS
  <2>1. path = None /\ body[g] = NoServices
    BY <1>1 DEF InSequence, TurnInv, InTurn
  <2>2. latest' = NoServices
    <3>1. CASE Placeholder
      BY <2>1, <3>1, PlaceholderOK
    <3>2. CASE UNCHANGED latest
      BY <2>1, <3>2 DEF FileInv, NoFileOK
    <3> QED
      BY <2>1, <3>1, <3>2 DEF CreatePlaceholder, Overwrites
  <2> QED
    BY <1>1, <2>1, <2>2
<1> QED
  BY <1>1, <1>2, <1>3, <1>4 DEF TurnInv, InTurn, InSequence, Idle

\* A Save puts its configuration in place, and carries it on.
LEMMA SaveTurn ==
  ASSUME FileInv, TurnInv, NEW g \in Goroutines,
         SaveOpen(g) \/ SaveWrite(g) \/ SaveWriteFails(g) \/ SaveRename(g)
  PROVE  TurnInv'
<1>1. PICK l \in {"idle", "write", "rename", "remember"} :
        /\ pc' = [pc EXCEPT ![g] = l]
        /\ l = "idle" => failed'
        /\ l = "remember" => body'[g] = latest'
        /\ UNCHANGED <<running, several, edits, memory, applied>>
  BY DEF SaveOpen, SaveWrite, SaveWriteFails, SaveRename, WriteError, Fails, GoesOn, Goto
<1>2. pc[g] # "idle" /\ l \in Labels
  BY DEF SaveOpen, SaveWrite, SaveWriteFails, SaveRename, Labels
<1>3. ~several => pc'[g] = l /\ \A h \in Goroutines : h # g => pc'[h] = "idle"
  BY <1>1, <1>2, OnlyOne DEF TurnInv
<1>4. AloneOK'
  BY <1>1, <1>3 DEF AloneOK
<1> QED
  BY <1>1, <1>3, <1>4 DEF TurnInv, InTurn, Idle

\* The memory takes it, and then the proxy.
LEMMA FollowTurn ==
  ASSUME FileInv, TurnInv, NEW g \in Goroutines, Remember(g) \/ Discover(g) \/ Apply(g)
  PROVE  TurnInv'
<1>1. PICK l \in {"idle", "discover", "apply"} :
        /\ pc' = [pc EXCEPT ![g] = l]
        /\ UNCHANGED <<running, several, overlap, edits, latest>>
        /\ ~failed' => ~failed
  BY DEF Remember, Discover, Apply, Goto, Fails, history
<1>2. pc[g] # "idle" /\ l \in Labels
  BY DEF Remember, Discover, Apply, Labels
<1>3. ~several => pc'[g] = l /\ \A h \in Goroutines : h # g => pc'[h] = "idle"
  BY <1>1, <1>2, OnlyOne DEF TurnInv
<1>4. AloneOK'
  BY <1>1, <1>3 DEF AloneOK
<1>5. ASSUME InSequence'
      PROVE  /\ memory' = latest
             /\ l = "apply" => merged'[g] = latest
             /\ l = "idle" => applied' = latest
  <2>1. InSequence
    BY <1>1, <1>5 DEF InSequence
  <2>2. CASE Remember(g)
    BY <1>1, <2>1, <2>2 DEF Remember, SetConfig, Goto, InSequence, TurnInv, InTurn, FileInv, TypeOK
  <2>3. CASE Discover(g)
    BY <1>1, <1>5, <2>1, <2>3 DEF Discover, Goto, Locals, Fails, InSequence, TurnInv, InTurn,
                                  FileInv, TypeOK
  <2>4. CASE Apply(g)
    BY <1>1, <2>1, <2>4 DEF Apply, Goto, InSequence, TurnInv, InTurn, FileInv, TypeOK
  <2> QED
    BY <2>2, <2>3, <2>4
<1>6. InTurn'
  BY <1>1, <1>3, <1>5 DEF InTurn, InSequence, Idle
<1> QED
  BY <1>4, <1>6 DEF TurnInv

\* A start begins over, with what the file holds in memory.
LEMMA StartTurn ==
  ASSUME FileInv, TurnInv, Start
  PROVE  TurnInv'
<1>1. /\ ~running /\ pc' = [pc EXCEPT ![Main] = "discover"] /\ UNCHANGED overlap
  BY DEF Start, Goto
<1>2. /\ Main \in Goroutines /\ pc'[Main] = "discover"
      /\ \A h \in Goroutines : h # Main => pc'[h] = "idle"
  BY <1>1 DEF FileInv, StoppedOK, Idle, TypeOK, Goroutines
<1>3. ~overlap => memory' = latest'
  <2>1. CASE path = None
    BY <2>1, PlaceholderOK DEF Start
  <2>2. CASE path # None
    BY <2>2 DEF Start, FileInv, FileIsLatest
  <2> QED
    BY <2>1, <2>2
<1> QED
  BY <1>1, <1>2, <1>3 DEF TurnInv, AloneOK, InTurn, Idle

LEMMA NextTurn == FileInv /\ TurnInv /\ [Next]_vars => TurnInv'
<1> SUFFICES ASSUME FileInv, TurnInv, [Next]_vars PROVE TurnInv'
  OBVIOUS
<1>1. ASSUME NEW g \in Goroutines, Request(g) PROVE TurnInv'
  BY <1>1, BeginTurn, CreateTurn, SaveTurn, FollowTurn DEF Request
<1>2. ASSUME NEW c \in Configs, Edit(c) PROVE TurnInv'
  <2>1. edits' # 0 /\ UNCHANGED <<pc, several>>
    BY <1>2 DEF Edit, requests, FileInv, TypeOK
  <2> QED
    BY <2>1 DEF TurnInv, AloneOK, InTurn
<1>3. CASE Crash
  <2>1. ~running' /\ \A g \in Goroutines : pc'[g] = "idle"
    BY <1>3 DEF Crash
  <2> QED
    BY <2>1 DEF TurnInv, AloneOK, InTurn
<1>4. CASE UNCHANGED vars
  BY <1>4 DEF vars, files, requests, history, TurnInv, AloneOK, InTurn, Idle
<1> QED
  BY <1>1, <1>2, <1>3, <1>4, StartTurn DEF Next

-----------------------------------------------------------------------------
(* The theorems *)

\* Every variable keeps its type, a goroutine of the admin server that writes has a
\* file open, and the config file and the temporary file are never one inode.
THEOREM TypeCorrect == Spec => []TypeOK
<1>1. FileInv => TypeOK
  BY DEF FileInv
<1> QED
  BY <1>1, FileInvCorrect, PTL

\* As long as no two Saves overlap, and no placeholder of Load truncates a file that
\* appeared since it looked, the config file is at every moment the
\* configuration last put in place by Save or by the user: the order in which
\* os.WriteFile and os.Rename are called keeps it whole through failures and crashes.
THEOREM FileIsLatestCorrect == Spec => []FileIsLatest
<1>1. FileInv => FileIsLatest
  BY DEF FileInv
<1> QED
  BY <1>1, FileInvCorrect, PTL

\* Requests of the admin server that follow one another without failing leave the
\* file, Store.config and the proxy with one configuration.
THEOREM SequentialAgreesCorrect == Spec => []SequentialAgrees
<1>1. Init => TurnInv
  BY InitTurn
<1>2. FileInv /\ TurnInv /\ [Next]_vars => TurnInv'
  BY NextTurn
<1>3. TurnInv => SequentialAgrees
  BY DEF TurnInv, InTurn, SequentialAgrees
<1> QED
  BY <1>1, <1>2, <1>3, FileInvCorrect, PTL DEF Spec

=============================================================================
