------------------------- MODULE MCAutocompleteWatcher -------------------------
(* A library and an application that depends on it, one file in each. *)
EXTENDS AutocompleteWatcher, TLC

CONSTANTS app, lib, appFile, libFile

TwoTargets == {app, lib}
TwoFiles == {appFile, libFile}
OneEach == appFile :> {app} @@ libFile :> {lib}
AppNeedsLib == {<<app, lib>>}
NoDeps == {}
OneFile == {libFile}
InLib == libFile :> {lib}
WithOrWithoutApp == {{lib}, {app, lib}}
NoScope == {<<{}, {}>>}
Fixed == {{app, lib}}
=============================================================================
