--------------------------- MODULE RuntimeLoader ---------------------------
(***************************************************************************)
(* msedge_runtime_loader: how the WebView2 runtime of the machine is found *)
(* and asked for an environment.  If WebView2Loader.dll is there, its      *)
(* functions are called; what is missing of it is done by the built-in     *)
(* implementation, which looks for a client in the registry.               *)
(*                                                                         *)
(* A machine is a record: the symbols of WebView2Loader.dll (none if it is *)
(* not there) and the EdgeUpdate keys of the system and of the user.  A    *)
(* key is a set of at most one client (none if the key cannot be opened).  *)
(* A client has a path, the parts of which are version strings: sequences  *)
(* of components, a negative one standing for text that is no number.      *)
(* entry says that the library at that path can be loaded and has          *)
(* CreateWebViewEnvironmentWithOptionsInternal.                            *)
(***************************************************************************)
EXTENDS Integers, Sequences

CONSTANTS
  api_version,  \* msedge_runtime_loader::api_version
  MaxLong       \* the largest number stol returns

ASSUME VersionsAssumption == api_version \in Nat \ {0} /\ MaxLong \in Nat

Symbols == {"create", "version"}
Clients == [path : Seq(Seq(Int)), entry : BOOLEAN]

\* Mutant: a path without a directory is taken for a version
whole_native_path(path) == IF path = <<>> THEN <<>> ELSE path[Len(path)]

\* The last part of a path; none if no part is followed by another one
get_last_native_path_component(path) ==
  IF Len(path) > 1 THEN path[Len(path)] ELSE <<>>

\* Four components; one that is missing, no number, negative or too large is 0
parse_version(v) ==
  [i \in 1..4 |-> IF i <= Len(v) /\ v[i] \in 0..MaxLong THEN v[i] ELSE 0]

\* A key whose client is recent enough is the client found
find_installed_client(key) ==
  {c \in key : parse_version(get_last_native_path_component(c.path))[3] >= api_version}

\* The system's client, or else the user's
find_available_client(m) ==
  IF find_installed_client(m.system) # {}
  THEN find_installed_client(m.system)
  ELSE find_installed_client(m.user)

\* The built-in check for a runtime, and the check: the answers it may give
get_available_browser_version_string_impl(m) == find_available_client(m) # {}
get_available_browser_version_string(m) ==
  IF "version" \in m.loader THEN BOOLEAN ELSE {get_available_browser_version_string_impl(m)}

\* The built-in creation of an environment finds nothing to ask
Misses(m) == "create" \notin m.loader /\ find_available_client(m) = {}

\* The client library it asks, if it asks one
Asked(m) == IF "create" \in m.loader THEN {} ELSE find_available_client(m)

\* The results it may return, WebView2 returning one of results.  A client without
\* the entry point is reported as a success.
create_environment_with_options_impl(m, results) ==
  IF Misses(m) THEN {"failed"}
  ELSE IF \E c \in Asked(m) : ~c.entry THEN {"nothing"}
  ELSE results

\* The results the creation of an environment may return
create_environment_with_options(m, results) ==
  IF "create" \in m.loader THEN results ELSE create_environment_with_options_impl(m, results)
=============================================================================
