----------------------------- MODULE NmProfile ------------------------------
(***************************************************************************)
(* The profile 'xmm7360' of NetworkManager, as the class DBUS of           *)
(* xm_dbus.py keeps it (open_xdatachannel.py has the same code in its      *)
(* second half).  A profile is the address it configures; paths name       *)
(* profiles, and a path is not used again.                                 *)
(***************************************************************************)
EXTENDS Integers, FiniteSets

CONSTANT MaxPaths   \* bound: profiles ever made

ASSUME PathsAssumption == MaxPaths \in Nat

VARIABLES
  profiles,         \* what NetworkManager has: path -> address
  paths,            \* paths given out so far
  connection_path   \* as in DBUS: the profile found last

nmVars == <<profiles, paths, connection_path>>

NoPath == 0

NmInit == profiles = <<>> /\ paths = 0 /\ connection_path = NoPath

\* A new process, or a new DBUS, knows no profile.
fresh == connection_path' = NoPath /\ UNCHANGED <<profiles, paths>>

\* Of several the last one listed is taken; none listed leaves the path alone.
get_connections ==
  /\ IF profiles = <<>> THEN UNCHANGED connection_path
     ELSE connection_path' \in DOMAIN profiles
  /\ UNCHANGED <<profiles, paths>>

\* GetSettings, its addresses, gateway and DNS replaced, Update.
update_connection(ip_addr) ==
  /\ connection_path \in DOMAIN profiles
  /\ profiles' = [profiles EXCEPT ![connection_path] = ip_addr]
  /\ UNCHANGED <<paths, connection_path>>

add_connection(ip_addr) ==
  /\ paths < MaxPaths
  /\ paths' = paths + 1
  /\ profiles' = [p \in DOMAIN profiles \cup {paths'} |->
                    IF p = paths' THEN ip_addr ELSE profiles[p]]
  /\ UNCHANGED connection_path

\* ActivateConnection (wwan0 is made managed first) needs the profile found.
Activatable == connection_path \in DOMAIN profiles

\* Somebody deletes the profile (nmcli, the settings panel).
delete_profile ==
  \E p \in DOMAIN profiles :
    /\ profiles' = [q \in DOMAIN profiles \ {p} |-> profiles[q]]
    /\ UNCHANGED <<paths, connection_path>>
=============================================================================
