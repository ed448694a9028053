----------------------------- MODULE Installation -----------------------------
(***************************************************************************)
(* install.py: what after_install and after_migrate leave on the Desk.     *)
(* The workspace comes first, Frappe's builders of the sidebar and of the  *)
(* app tile need it, and the tile's name may be taken by an icon that was  *)
(* derived from a workspace.  Any step may raise.                          *)
(***************************************************************************)

VARIABLES
  workspace,           \* "none", "old" (another release, or edited) or "current"
  sidebar,             \* is there one for the workspace?
  icon,                \* the Desktop Icon of the app's title: "none", "Workspace" or "App"
  cached,              \* do the caches show the icons there are?
  step,                \* of setup; "idle" between runs, "aborted" when bench gave up
  installed,           \* has after_install come to its end?  Then runs are after_migrate
  clean                \* history: nothing failed outside setup, and nobody interfered

siteVars == <<workspace, sidebar, icon, cached, step, installed, clean>>

\* Frappe builds the sidebars of an app before its after_install: there is none yet.
InstallationInit ==
  /\ workspace = "none" /\ sidebar = FALSE /\ icon = "none" /\ cached = TRUE
  /\ step = "idle" /\ installed = FALSE /\ clean = FALSE

Ends == installed' = (installed \/ step' = "idle")

Between == step \in {"idle", "aborted"}

\* bench install-app (once more after it was aborted), later bench migrate.
BenchRuns ==
  /\ Between
  /\ step' = "workspace" /\ clean' = TRUE
  /\ UNCHANGED <<workspace, sidebar, icon, cached, installed>>

\* Between runs people delete and edit, releases change the workspace, and Frappe
\* derives an icon from it when there is none of that name.
DeskChanges ==
  /\ Between
  /\ \/ workspace' \in {"none", "old"} /\ UNCHANGED <<sidebar, icon>>
     \/ sidebar' = FALSE /\ UNCHANGED <<workspace, icon>>
     \/ icon' = "none" /\ UNCHANGED <<workspace, sidebar>>
     \/ icon = "none" /\ icon' = "Workspace" /\ UNCHANGED <<workspace, sidebar>>
  /\ clean' = FALSE
  /\ UNCHANGED <<cached, step, installed>>

\* Slip: after_migrate handles no exception.
RaisedThrough == "aborted"

\* after_migrate logs what setup raises, after_install hands it on to bench.
Raised == IF installed THEN "idle" ELSE "aborted"

EnsureWorkspace ==
  /\ step = "workspace"
  /\ \/ workspace' = "current" /\ step' = "stale icon" /\ UNCHANGED clean
     \/ clean' = FALSE /\ step' = Raised /\ UNCHANGED workspace
  /\ UNCHANGED <<sidebar, icon, cached>> /\ Ends

\* Slip: whatever has the tile's name is taken for the tile.
TakenForTile == FALSE

NameTaken == icon \notin {"none", "App"}

\* An icon that has the tile's name is dropped.
DropStaleIcon ==
  /\ step = "stale icon"
  /\ \/ /\ IF NameTaken THEN icon' = "none" /\ cached' = FALSE ELSE UNCHANGED <<icon, cached>>
        /\ step' = "sidebar" /\ UNCHANGED clean
     \/ NameTaken /\ clean' = FALSE /\ step' = Raised /\ UNCHANGED <<icon, cached>>
  /\ UNCHANGED <<workspace, sidebar>> /\ Ends

\* Frappe's after_app_install builds sidebars, then tiles.  What a builder raises is
\* logged, and the rest is left to the next migrate.
BuildSidebar ==
  /\ step = "sidebar"
  /\ \/ sidebar' = (sidebar \/ workspace # "none") /\ step' = "tile" /\ UNCHANGED clean
     \/ clean' = FALSE /\ step' = "idle" /\ UNCHANGED sidebar
  /\ UNCHANGED <<workspace, icon, cached>> /\ Ends

\* A tile needs the sidebar to link to, and its name.
BuildTile ==
  /\ step = "tile"
  /\ \/ /\ IF sidebar /\ icon \in {"none", "App"}
           THEN /\ icon' = "App" /\ step' = "caches"
                /\ cached' = (cached /\ icon = "App")
           ELSE step' = "idle" /\ UNCHANGED <<icon, cached>>
        /\ UNCHANGED clean
     \/ clean' = FALSE /\ step' = "idle" /\ UNCHANGED <<icon, cached>>
  /\ UNCHANGED <<workspace, sidebar>> /\ Ends

DropCaches ==
  /\ step = "caches"
  /\ cached' = TRUE /\ step' = "idle"
  /\ UNCHANGED <<workspace, sidebar, icon, clean>> /\ Ends

InstallationNext ==
  \/ BenchRuns \/ DeskChanges \/ EnsureWorkspace \/ DropStaleIcon
  \/ BuildSidebar \/ BuildTile \/ DropCaches

InstallationSpec == InstallationInit /\ [][InstallationNext]_siteVars

----------------------------------------------------------------------------
(* Properties.                                                             *)

InstallationTypeOK ==
  /\ workspace \in {"none", "old", "current"} /\ icon \in {"none", "Workspace", "App"}
  /\ step \in {"idle", "aborted", "workspace", "stale icon", "sidebar", "tile", "caches"}
  /\ sidebar \in BOOLEAN /\ cached \in BOOLEAN /\ installed \in BOOLEAN /\ clean \in BOOLEAN

\* "Never let cosmetics abort someone else's migration."
MigrateNeverAborts == step = "aborted" => ~installed

\* "A missing workspace is repaired by the next migrate": whatever earlier runs, failures
\* and people left behind, a run in which nothing outside fails leaves the workspace, its
\* sidebar, the app's tile, and no stale cache.
CleanRunCompletes ==
  step = "idle" /\ clean => workspace = "current" /\ sidebar /\ icon = "App" /\ cached

=============================================================================
