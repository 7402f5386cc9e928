------------------------------- MODULE MCDesk --------------------------------
(***************************************************************************)
(* What a participant has before them, on small instances: a text of a     *)
(* persistent session, the editor that shows a shared text, the folder on  *)
(* disk and the shared terminal.  Every behaviour is about one part, as in *)
(* MCPeers.                                                                *)
(***************************************************************************)
EXTENDS Naturals, Sequences, FiniteSets

CONSTANTS
  Parts,  \* the parts a run is about
  Unused  \* a variable that is not in use

VARIABLES part,
  edit, file, replica, acl, root, readers, requests, replies, events, state, journal,
  archive, troubles, kept, acked, written, issued, restored,
  entries, made, canon, shown, other, editor, initial, render, allowed, turns, torn,
  fate,
  project, working, backing, bound, pending, timer, redirects, removed, queue,
  collected, active, astray, fails,
  hosts, known, term, policy, linked, net, shells, cmds, stop, printed, struck, left,
  ops

-----------------------------------------------------------------------------
Shown == {<<1, 2>>, <<2>>, <<1, 9, 2>>}
Flat  == {<<"x">>, <<"y">>}
Tree  == {<<"d">>, <<"d", "f">>, <<"d", "k">>, <<"e">>, <<"e", "f">>, <<"e", "k">>}
Half  == {<<"d">>, <<"d", "f">>, <<"d", "k">>}
Mine  == {<<"d", "k">>, <<"e", "k">>}

(* Two editors of one text of a persistent session, and one trouble.        *)
Sync == INSTANCE PersistentText WITH
  Member <- {"m1", "m2"}, MaxEdits <- 2, MaxTroubles <- 1

(* The user and the others type and erase.                                  *)
Typing == INSTANCE EditorText WITH
  Screens <- Shown, MaxOps <- 3, MaxTurns <- 0
(* The permission to edit comes and goes.                                   *)
Turns == INSTANCE EditorText WITH
  Screens <- Shown, MaxOps <- 2, MaxTurns <- 2

(* Documents are edited and a write fails; the session is stopped.          *)
Saving == INSTANCE StorageAdapter WITH
  Paths <- Flat, Initial <- {<<"x">>}, Private <- {}, Bound <- TRUE,
  Ops <- {"edit", "create", "delete", "stop"}, MaxOps <- 3, MaxFails <- 1
(* They are renamed as well.                                                *)
Renaming == INSTANCE StorageAdapter WITH
  Paths <- Flat, Initial <- {<<"x">>}, Private <- {}, Bound <- TRUE,
  Ops <- {"edit", "create", "delete", "rename", "stop"}, MaxOps <- 4,
  MaxFails <- 0
(* A folder is renamed or removed, and a write fails.                       *)
Trees == INSTANCE StorageAdapter WITH
  Paths <- Tree, Initial <- Half, Private <- {}, Bound <- TRUE,
  Ops <- {"edit", "create", "delete", "rename"}, MaxOps <- 3,
  MaxFails <- 1
(* The folder is chosen while files are created.                            *)
Choosing == INSTANCE StorageAdapter WITH
  Paths <- Flat, Initial <- {<<"x">>}, Private <- {}, Bound <- FALSE,
  Ops <- {"edit", "create", "delete", "choose", "binary"}, MaxOps <- 3,
  MaxFails <- 0
(* It is chosen while they are renamed.                                     *)
Moving == INSTANCE StorageAdapter WITH
  Paths <- Flat, Initial <- {<<"x">>}, Private <- {}, Bound <- FALSE,
  Ops <- {"edit", "create", "delete", "choose", "rename"}, MaxOps <- 3,
  MaxFails <- 0
(* The folder that is chosen holds private files of its owner.              *)
Hidden == INSTANCE StorageAdapter WITH
  Paths <- Tree, Initial <- Half, Private <- Mine, Bound <- FALSE,
  Ops <- {"edit", "create", "delete", "choose"}, MaxOps <- 3,
  MaxFails <- 0
(* Binary files come and go and a write fails.                              *)
Binaries == INSTANCE StorageAdapter WITH
  Paths <- Flat, Initial <- {<<"x">>}, Private <- {}, Bound <- TRUE,
  Ops <- {"edit", "create", "delete", "binary"}, MaxOps <- 3,
  MaxFails <- 1

(* The host and a guest type, a copy arrives, one is stopped, a right is revoked. *)
Typed == INSTANCE SharedTerminal WITH
  Peers <- {"h", "g"}, Founder <- "h", Commands <- [a |-> "h", b |-> "g"], Retain <- 1,
  Ordered <- FALSE, MaxOutput <- 0, MaxResets <- 0, MaxRestarts <- 0, MaxCuts <- 0,
  MaxChanges <- 0, MaxStops <- 1, MaxCopies <- 1, MaxExits <- 0, MaxRevokes <- 1
(* Both type while a stop is confirmed; the terminal is reset, a shell ends. *)
Stops == INSTANCE SharedTerminal WITH
  Peers <- {"h", "g"}, Founder <- "h", Commands <- [a |-> "h", b |-> "g"], Retain <- 1,
  Ordered <- FALSE, MaxOutput <- 0, MaxResets <- 1, MaxRestarts <- 0, MaxCuts <- 0,
  MaxChanges <- 0, MaxStops <- 1, MaxCopies <- 0, MaxExits <- 1, MaxRevokes <- 0
(* The host changes while a stop is under way.                              *)
Handover == INSTANCE SharedTerminal WITH
  Peers <- {"h", "g"}, Founder <- "h", Commands <- [a |-> "h"], Retain <- 1,
  Ordered <- FALSE, MaxOutput <- 0, MaxResets <- 0, MaxRestarts <- 0, MaxCuts <- 0,
  MaxChanges <- 1, MaxStops <- 1, MaxCopies <- 0, MaxExits <- 0, MaxRevokes <- 0
(* The host changes while both type.                                        *)
NewHost == INSTANCE SharedTerminal WITH
  Peers <- {"h", "g"}, Founder <- "h", Commands <- [a |-> "h", b |-> "g"], Retain <- 1,
  Ordered <- FALSE, MaxOutput <- 0, MaxResets <- 0, MaxRestarts <- 0, MaxCuts <- 0,
  MaxChanges <- 1, MaxStops <- 0, MaxCopies <- 0, MaxExits <- 0, MaxRevokes <- 0
(* Output, a reset, and a shell that ends.                                  *)
Output == INSTANCE SharedTerminal WITH
  Peers <- {"h", "g"}, Founder <- "h", Commands <- [a |-> "h"], Retain <- 1,
  Ordered <- FALSE, MaxOutput <- 2, MaxResets <- 1, MaxRestarts <- 0, MaxCuts <- 0,
  MaxChanges <- 0, MaxStops <- 0, MaxCopies <- 0, MaxExits <- 1, MaxRevokes <- 0
(* Output while the routes break.                                           *)
Breaks == INSTANCE SharedTerminal WITH
  Peers <- {"h", "g"}, Founder <- "h", Commands <- [a |-> "h"], Retain <- 1,
  Ordered <- FALSE, MaxOutput <- 2, MaxResets <- 0, MaxRestarts <- 0, MaxCuts <- 1,
  MaxChanges <- 0, MaxStops <- 0, MaxCopies <- 0, MaxExits <- 0, MaxRevokes <- 0
(* A reset and the end of a shell while they do.                            *)
Lost == INSTANCE SharedTerminal WITH
  Peers <- {"h", "g"}, Founder <- "h", Commands <- [a |-> "h"], Retain <- 1,
  Ordered <- FALSE, MaxOutput <- 1, MaxResets <- 1, MaxRestarts <- 0, MaxCuts <- 1,
  MaxChanges <- 0, MaxStops <- 0, MaxCopies <- 0, MaxExits <- 1, MaxRevokes <- 0
(* The host starts again, and resets its terminal.                          *)
Restarts == INSTANCE SharedTerminal WITH
  Peers <- {"h", "g"}, Founder <- "h", Commands <- [a |-> "h"], Retain <- 1,
  Ordered <- FALSE, MaxOutput <- 1, MaxResets <- 1, MaxRestarts <- 1, MaxCuts <- 0,
  MaxChanges <- 0, MaxStops <- 0, MaxCopies <- 0, MaxExits <- 0, MaxRevokes <- 0
(* More output around a start.                                              *)
Again == INSTANCE SharedTerminal WITH
  Peers <- {"h", "g"}, Founder <- "h", Commands <- [a |-> "h"], Retain <- 1,
  Ordered <- FALSE, MaxOutput <- 2, MaxResets <- 0, MaxRestarts <- 1, MaxCuts <- 0,
  MaxChanges <- 0, MaxStops <- 0, MaxCopies <- 0, MaxExits <- 0, MaxRevokes <- 0
(* Output around a change of hosts.                                         *)
Moved == INSTANCE SharedTerminal WITH
  Peers <- {"h", "g"}, Founder <- "h", Commands <- [a |-> "h"], Retain <- 1,
  Ordered <- FALSE, MaxOutput <- 1, MaxResets <- 0, MaxRestarts <- 0, MaxCuts <- 0,
  MaxChanges <- 1, MaxStops <- 0, MaxCopies <- 0, MaxExits <- 0, MaxRevokes <- 0

-----------------------------------------------------------------------------
textVars == <<edit, file, replica, acl, root, readers, requests, replies, events, state,
  journal, archive, troubles, kept, acked, written, issued, restored>>
editorVars == <<entries, made, canon, shown, other, editor, initial, render, allowed,
  turns, torn, fate>>
folderVars == <<project, working, backing, bound, pending, timer, redirects, removed,
  queue, collected, active, astray, fails>>
terminalVars == <<hosts, known, term, policy, linked, net, shells, cmds, stop, printed,
  struck, left>>
vars == <<part, textVars, editorVars, folderVars, terminalVars, ops>>

EditorParts == {"typing", "turns"}
FolderParts == {"saving", "renaming", "trees", "choosing", "moving", "hidden",
  "binaries"}
TerminalParts == {"commands", "stops", "handover", "newHost", "output", "breaks",
  "lost", "restarts", "again", "moved"}

NoText ==
  /\ edit = Unused /\ file = Unused /\ replica = Unused /\ acl = Unused /\ root = Unused
  /\ readers = Unused /\ requests = Unused /\ replies = Unused /\ events = Unused /\ state = Unused
  /\ journal = Unused /\ archive = Unused /\ troubles = Unused /\ kept = Unused /\ acked = Unused
  /\ written = Unused /\ issued = Unused /\ restored = Unused
NoEditor ==
  /\ entries = Unused /\ made = Unused /\ canon = Unused /\ shown = Unused /\ other = Unused
  /\ editor = Unused /\ initial = Unused /\ render = Unused /\ allowed = Unused /\ turns = Unused
  /\ torn = Unused /\ fate = Unused
NoFolder ==
  /\ project = Unused /\ working = Unused /\ backing = Unused /\ bound = Unused /\ pending = Unused
  /\ timer = Unused /\ redirects = Unused /\ removed = Unused /\ queue = Unused
  /\ collected = Unused /\ active = Unused
  /\ astray = Unused /\ fails = Unused
NoTerminal ==
  /\ hosts = Unused /\ known = Unused /\ term = Unused /\ policy = Unused /\ linked = Unused
  /\ net = Unused /\ shells = Unused /\ cmds = Unused /\ stop = Unused /\ printed = Unused
  /\ struck = Unused /\ left = Unused

TextOnly == UNCHANGED <<part, editorVars, folderVars, terminalVars, ops>>
EditorOnly == UNCHANGED <<part, textVars, folderVars, terminalVars>>
FolderOnly == UNCHANGED <<part, textVars, editorVars, terminalVars>>
TerminalOnly == UNCHANGED <<part, textVars, editorVars, folderVars, ops>>

Init ==
  /\ part \in Parts
  /\ IF part = "sync" THEN Sync!Init ELSE NoText
  /\ CASE part = "typing" -> Typing!Init
       [] part = "turns" -> Turns!Init
       [] OTHER -> NoEditor
  /\ CASE part = "saving" -> Saving!Init
       [] part = "renaming" -> Renaming!Init
       [] part = "trees" -> Trees!Init
       [] part = "choosing" -> Choosing!Init
       [] part = "moving" -> Moving!Init
       [] part = "hidden" -> Hidden!Init
       [] part = "binaries" -> Binaries!Init
       [] OTHER -> NoFolder
  /\ CASE part = "commands" -> Typed!Init
       [] part = "stops" -> Stops!Init
       [] part = "handover" -> Handover!Init
       [] part = "newHost" -> NewHost!Init
       [] part = "output" -> Output!Init
       [] part = "breaks" -> Breaks!Init
       [] part = "lost" -> Lost!Init
       [] part = "restarts" -> Restarts!Init
       [] part = "again" -> Again!Init
       [] part = "moved" -> Moved!Init
       [] OTHER -> NoTerminal
  /\ part \notin EditorParts \cup FolderParts => ops = Unused

SyncStep == part = "sync" /\ Sync!Next /\ TextOnly
TypingStep == part = "typing" /\ Typing!Next /\ EditorOnly
TurnsStep == part = "turns" /\ Turns!Next /\ EditorOnly
SavingStep == part = "saving" /\ Saving!Next /\ FolderOnly
RenamingStep == part = "renaming" /\ Renaming!Next /\ FolderOnly
TreesStep == part = "trees" /\ Trees!Next /\ FolderOnly
ChoosingStep == part = "choosing" /\ Choosing!Next /\ FolderOnly
MovingStep == part = "moving" /\ Moving!Next /\ FolderOnly
HiddenStep == part = "hidden" /\ Hidden!Next /\ FolderOnly
BinariesStep == part = "binaries" /\ Binaries!Next /\ FolderOnly
TypedStep == part = "commands" /\ Typed!Next /\ TerminalOnly
StopsStep == part = "stops" /\ Stops!Next /\ TerminalOnly
HandoverStep == part = "handover" /\ Handover!Next /\ TerminalOnly
NewHostStep == part = "newHost" /\ NewHost!Next /\ TerminalOnly
OutputStep == part = "output" /\ Output!Next /\ TerminalOnly
BreaksStep == part = "breaks" /\ Breaks!Next /\ TerminalOnly
LostStep == part = "lost" /\ Lost!Next /\ TerminalOnly
RestartsStep == part = "restarts" /\ Restarts!Next /\ TerminalOnly
AgainStep == part = "again" /\ Again!Next /\ TerminalOnly
MovedStep == part = "moved" /\ Moved!Next /\ TerminalOnly

Next ==
  \/ SyncStep
  \/ TypingStep \/ TurnsStep
  \/ SavingStep \/ RenamingStep \/ TreesStep \/ ChoosingStep \/ MovingStep \/ HiddenStep \/ BinariesStep
  \/ TypedStep \/ StopsStep \/ HandoverStep \/ NewHostStep \/ OutputStep \/ BreaksStep \/ LostStep \/ RestartsStep \/ AgainStep \/ MovedStep

Spec == Init /\ [][Next]_vars

-----------------------------------------------------------------------------
(* What is shown agrees: editors of a persistent text with the server once  *)
(* all is delivered, with the inductive invariant that PersistentText_proofs*)
(* proves (all of it before there are both a second edit and a trouble), the*)
(* screen with the shared text once nothing is rendered (EditorText), every *)
(* terminal with what the shell of the host printed; a command is typed into*)
(* a shell once, and a confirmed stop ends the very run its dialog named    *)
(* (SharedTerminal).                                                        *)
WhatIsShownIsTrue ==
  /\ part = "sync"   => Sync!EditorsAgree
  /\ part = "sync" /\ (Len(edit) < 2 \/ troubles = 0) => Sync!TextInv
  /\ part = "typing" => Typing!ScreenIsShared
  /\ part = "turns"  => Turns!ScreenIsShared
  /\ part = "commands" => Typed!FedOnce /\ Typed!StopIsExact
  /\ part = "stops"    => Stops!FedOnce /\ Stops!StopIsExact
  /\ part = "handover" => Handover!FedOnce /\ Handover!StopIsExact
  /\ part = "newHost"  => NewHost!FedOnce
  /\ part = "output"   => Output!ShowsWhatWasPrinted
  /\ part = "breaks"   => Breaks!ShowsWhatWasPrinted
  /\ part = "lost"     => Lost!ShowsWhatWasPrinted
  /\ part = "restarts" => Restarts!ShowsWhatWasPrinted
  /\ part = "again"    => Again!ShowsWhatWasPrinted
  /\ part = "moved"    => Moved!ShowsWhatWasPrinted

(* No work is lost and none is done twice: journals recover from a trouble  *)
(* (PersistentText), what is typed goes into the shared text once           *)
(* (EditorText); once the writes of the host are through, and when a stop   *)
(* succeeds, its folder holds the project, except where the code itself     *)
(* leads a write, a removal or a rename astray (the cases that StorageAdapter*)
(* lists under astray, with their lines), and its private files stay as they*)
(* are (StorageAdapter); no terminal goes back in its history               *)
(* (SharedTerminal).                                                        *)
WorkIsKept ==
  /\ [](part = "sync"     => Sync!RecoversFromTrouble)
  /\ [](part = "typing"   => Typing!OnceEach)
  /\ [](part = "turns"    => Turns!OnceEach)
  /\ [](part = "saving"   => Saving!BackingIsProject /\ Saving!StoppedIsSaved)
  /\ [](part = "renaming" => Renaming!BackingIsProject /\ Renaming!StoppedIsSaved)
  /\ [](part = "trees"    => Trees!BackingIsProject)
  /\ [](part = "choosing" => Choosing!BackingIsProject)
  /\ [](part = "moving"   => Moving!BackingIsProject)
  /\ [](part = "hidden"   => Hidden!BackingIsProject)
  /\ [](part = "binaries" => Binaries!BackingIsProject)
  /\ [][/\ part = "hidden"   => Hidden!PrivateFilesStay
        /\ part = "breaks"   => Breaks!HistoryMovesForward
        /\ part = "lost"     => Lost!HistoryMovesForward
        /\ part = "restarts" => Restarts!HistoryMovesForward]_vars
=============================================================================
