------------------------------- MODULE Keychain -------------------------------
(***************************************************************************)
(* The generic-password items of one account and the calls that            *)
(* keychain.rs (src/src/keychain.rs, module macos) makes on them.  The     *)
(* search list has the login keychain, where kpexec adds its item, and     *)
(* others.  kpexec trusts an item only if its partition list proves that   *)
(* kpexec made it.  Instanced by the component that calls set and delete;  *)
(* VaultFiles is its counterpart for the files.                            *)
(***************************************************************************)
CONSTANTS
  Key,     \* passwords: the values of provable items
  NoItem,  \* the login keychain has no item of the account
  Alien,   \* it has one of another program
  Stray    \* it has one that kpexec put a password in and cannot prove its own

VARIABLES
  item,    \* in the login keychain
  crowd    \* another keychain of the search list has an item of the account

KeychainTypeOK == item \in Key \cup {NoItem, Alien, Stray} /\ crowd \in BOOLEAN

\* find_item returns no reference, or one; more results are an error.
Absent == item = NoItem /\ ~crowd
Unique == (item = NoItem) = crowd

\* item_acl_binding of the reference found.  Nobody else makes a provable
\* item, so a reference that proves true names kpexec's own.
Verified == item \in Key

\* set_password on the reference, which leaves the partition list as it is.
Update(key) == item' = (IF item \in Key THEN key ELSE Stray) /\ UNCHANGED crowd

\* SecItemAdd refuses a duplicate; the system may fail to put the creator's
\* partition on the item.
Add(key) == item = NoItem /\ item' \in {key, Stray} /\ UNCHANGED crowd

\* SecKeychainItemDelete of the reference to the item just added.
DeleteOwn == item' = NoItem /\ UNCHANGED crowd

\* delete_generic_password by service and account: some of what goes by that
\* name, no matter whose; none is not an error.
DeleteByName ==
  /\ item' \in {item, NoItem} /\ crowd' \in {crowd, FALSE}
  /\ Absent \/ item' # item \/ crowd' # crowd

\* Another program, or another Mac's keychain, adds or removes its own item.
OtherProgram ==
  \/ /\ item \in {NoItem, Alien} /\ item' \in {NoItem, Alien} \ {item}
     /\ UNCHANGED crowd
  \/ crowd' = ~crowd /\ UNCHANGED item
===============================================================================
