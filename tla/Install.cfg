\* The user edits the rc file and Claude's settings.  Of two commands of his one only
\* contains "snitchit", the other ends in "hook", too.
SPECIFICATION Spec
CONSTANTS
    Texts = {a}
    Sides <- AtTheEnd
    Exes = {exe1, exe2}
    Users = {named, alike}
    NamesSnitchit = {exe1, exe2, named, alike}
    EndsInHook = {exe1, exe2, alike}
    MaxEdits = 2
    MaxTears = 1
INVARIANTS TypeOK InstallDelivers UninstallDelivers
PROPERTIES LeavesUserText LeavesUserHooks
SYMMETRY Symmetry
