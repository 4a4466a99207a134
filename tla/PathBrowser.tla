---------------------------- MODULE PathBrowser ----------------------------
(***************************************************************************)
(* The two file browsers of lib/client/path-browser.js: the remote one     *)
(* lists a directory of the host through an ssh child, the local one reads *)
(* the directory itself.  Both climb when a directory cannot be read.      *)
(*                                                                         *)
(* Abstractions: an absolute path is its depth below the root, so that     *)
(* path.dirname is what matters of it; "~" and "." are the two relative    *)
(* paths that occur.  Which directories can be read may change at any      *)
(* time.  The wording for sources and destinations is left out.            *)
(***************************************************************************)
EXTENDS Integers, FiniteSetsExt

CONSTANTS
  MaxDepth,  \* bound: depth of the directory trees
  HomeDepth, \* depth of the user's home on the host
  DropDepth, \* depth of the host's shared drop folder
  CwdDepth   \* depth of the client's working directory

Depths == 0..MaxDepth

ASSUME BrowserAssumption ==
  /\ MaxDepth \in Nat
  /\ {HomeDepth, DropDepth, CwdDepth} \subseteq Depths

VARIABLE browse \* the browser in use: its side, where it waits, its directory

Tilde == -2
Dot == -1

\* path.dirname
Dirname(p) ==
  CASE p = Tilde     -> Dot
    [] p \in {Dot, 0} -> p
    [] OTHER         -> p - 1

\* The directory that the listing reports: $PWD after cd.
Pwd(p) == IF p \in {Tilde, Dot} THEN HomeDepth ELSE p

Browser(side, at, dir) == [side |-> side, at |-> at, dir |-> dir]
NoBrowser == Browser("none", "closed", 0)
Chosen == Browser("none", "chosen", 0)

\* promptRemotePath and promptLocalPath first ask how the path is to be given.
RemotePrompt(start) == Browser("remote", "mode", start)
LocalPrompt == Browser("local", "mode", CwdDepth)

Waits(side, at) == browse.side = side /\ browse.at = at
Turn(at, dir) == browse' = Browser(browse.side, at, dir)

BrowserTypeOK ==
  browse \in [side : {"none", "remote", "local"},
              at : {"closed", "chosen", "mode", "typing", "listing", "entries", "folder",
                    "overflow"},
              dir : Depths \union {Tilde, Dot}]

\* Any prompt of a browser; the others wait for the ssh child or for the caller.
Prompting == browse.at \in {"mode", "typing", "entries", "folder"}

\* The path is typed in; or a path is given at the last prompt.
TypeManually == browse.at = "mode" /\ Turn("typing", browse.dir)
Typed == browse.at = "typing" /\ browse' = Chosen

----------------------------------------------------------------------------
(* The remote browser.                                                     *)

BrowseRemote == Waits("remote", "mode") /\ Turn("listing", browse.dir)

ListingShown == Waits("remote", "listing") /\ Turn("entries", Pwd(browse.dir))

\* Mutant: at the top it starts over at the home, as the local browser starts over.
ListingRestarts ==
  /\ Waits("remote", "listing")
  /\ Turn("listing", IF Dirname(browse.dir) # browse.dir THEN Dirname(browse.dir) ELSE Tilde)

\* A listing that fails is tried in the parent; where that is the same directory,
\* the path is typed in.
ListingFailed ==
  /\ Waits("remote", "listing")
  /\ IF Dirname(browse.dir) # browse.dir
       THEN Turn("listing", Dirname(browse.dir))
       ELSE Turn("typing", browse.dir)

RemoteUp == Waits("remote", "entries") /\ Turn("listing", Dirname(browse.dir))

OpenRemoteFolder == Waits("remote", "folder") /\ Turn("listing", browse.dir + 1)

----------------------------------------------------------------------------
(* The local browser.                                                      *)

\* readdirSync is tried in dir and above it, then from the working directory, all
\* without a wait; if none of these can be read the recursion exhausts the stack.
OpenLocal(dir) ==
  \E readable \in SUBSET Depths :
    LET above(d) == {e \in readable : e <= d}
        found == IF above(dir) # {} THEN above(dir) ELSE above(CwdDepth)
    IN  IF found = {} THEN Turn("overflow", dir) ELSE Turn("entries", Max(found))

BrowseLocal == Waits("local", "mode") /\ OpenLocal(browse.dir)

LocalUp == Waits("local", "entries") /\ OpenLocal(Dirname(browse.dir))

\* The entry has gone since it was listed: the directory is shown again.
LocalEntryGone == Waits("local", "entries") /\ OpenLocal(browse.dir)

OpenLocalFolder == Waits("local", "folder") /\ OpenLocal(browse.dir + 1)

----------------------------------------------------------------------------
(* Both.                                                                   *)

\* The current directory, or an entry that is not a folder.
SelectEntry == browse.at = "entries" /\ browse' = Chosen

EnterFolder ==
  /\ browse.at = "entries"
  /\ browse.dir < MaxDepth
  /\ Turn("folder", browse.dir)

SelectFolder == browse.at = "folder" /\ browse' = Chosen

\* What the program does by itself, and what it does at the user's answers.
ListingEnds == ListingShown \/ ListingFailed

UserBrowses ==
  \/ TypeManually \/ Typed \/ BrowseRemote \/ RemoteUp \/ OpenRemoteFolder
  \/ BrowseLocal \/ LocalUp \/ LocalEntryGone \/ OpenLocalFolder
  \/ SelectEntry \/ EnterFolder \/ SelectFolder
=============================================================================
