---------------------------- MODULE MCProcServer ----------------------------
(***************************************************************************)
(* Small instances of ProcServer.                                          *)
(***************************************************************************)
EXTENDS ProcServer

CONSTANTS c1, c2, c3, f1, f2, f3, f4, f5, o1, o2, o3, o4, o5

MCBootPaths == {<<"boot", "x">>}
NoPaths == {}
AnyBoot == {{}, SysPaths}
FullBoot == {SysPaths \cup MCBootPaths}

\* A text, a file, a path through the file, and odd paths.
Names == {"sys", "devices", "boot", "x", "a", "b", ""}

SessionPaths == {<<"sys">>, <<"a">>, <<"a", "b">>, <<"a", "">>, <<>>}
\* A file in a directory, and the directory.
NestedPaths == {<<"a", "b">>, <<"a">>}

DataPaths == {<<"sys">>, <<"boot", "x">>}

AllModes == {O_RDONLY, O_WRONLY, O_RDWR}
DataModes == {O_RDONLY, O_RDWR}

Text0 == <<0>>
Text1 == <<1>>
SomePayloads == {<<1>>, <<1, 0>>}

\* The blocks and objects of the boot files are fixed, the others are alike.
SysBlock == (<<"sys">> :> f1) @@ (<<"devices">> :> f2)
SysObj == (<<"sys">> :> o1) @@ (<<"devices">> :> o2)
MCBootBlock == SysBlock @@ (<<"boot", "x">> :> f3)
MCBootObj == SysObj @@ (<<"boot", "x">> :> o3)

Alike ==
  Permutations(Scoid) \cup Permutations(FileId \ {f1, f2, f3})
    \cup Permutations(Obj \ {o1, o2, o3})
\* Nothing reads the last response but a property of the step that gives it,
\* and nothing happens after a fault.
Control == IF fault = "none" THEN <<con, dirs, file, mapped, share, mem>> ELSE <<fault>>
=============================================================================
