------------------------------- MODULE Volumes -------------------------------
(***************************************************************************)
(* configure_volume (src/hooks/charmhelpers/contrib/charmsupport/          *)
(* volumes.py) with mount, umount and the entries of /etc/fstab of one     *)
(* mount point (core/host.py, core/fstab.py).  The workload is stopped     *)
(* from before_change to after_change.  mount and umount may fail, the     *)
(* call may be cut off anywhere, and the machine may be rebooted.          *)
(***************************************************************************)
EXTENDS Naturals, Sequences

CONSTANTS Devices, MaxChanges, MaxFailures

VARIABLES
    volume,    \* what the options ask for: a device, "ephemeral", or "invalid"
    mounted,   \* the devices on the mount point, the last one on top
    fstab,     \* the devices of the mount point's entries, from top to bottom
    todo,      \* what is left of the call
    result,    \* how the last call ended: "nothing" when it found all in place
    stopped,   \* before_change was called and after_change was not
    untidy,    \* a call has ended between a mount or umount and its entry
    changes, failures

vars == <<volume, mounted, fstab, todo, result, stopped, untidy, changes, failures>>

Top(stack) == IF stack = <<>> THEN "ephemeral" ELSE stack[Len(stack)]

Change ==
    /\ todo = <<>> /\ changes < MaxChanges
    /\ changes' = changes + 1
    /\ volume' \in Devices \cup {"ephemeral", "invalid"}
    /\ result' = "none"
    /\ UNCHANGED <<mounted, fstab, todo, stopped, untidy, failures>>

mount_volume == <<"unmount", "mount", "record", "after_change">>

Steps == IF volume = "ephemeral" THEN <<"unmount", "after_change">>
         ELSE IF mounted = <<>> THEN mount_volume ELSE <<"unmount">> \o mount_volume

configure_volume ==
    /\ todo = <<>> /\ result = "none"
    /\ IF volume = "invalid" \/ volume = Top(mounted)
       THEN /\ result' = IF volume = "invalid" THEN "raised" ELSE "nothing"
            /\ UNCHANGED <<todo, stopped>>
       ELSE todo' = Steps /\ stopped' = TRUE /\ UNCHANGED result
    /\ UNCHANGED <<volume, mounted, fstab, untidy, changes, failures>>

Raise == todo' = <<>> /\ result' = "raised"

Do(step) == todo # <<>> /\ Head(todo) = step

\* mount or umount exits with an error.
CommandFails ==
    /\ Do("mount") \/ (Do("unmount") /\ mounted # <<>>)
    /\ failures < MaxFailures /\ failures' = failures + 1
    /\ Raise
    /\ UNCHANGED <<volume, mounted, fstab, stopped, untidy, changes>>

unmount_volume ==
    /\ Do("unmount")
    /\ IF mounted = <<>>
       THEN todo' = Tail(todo) /\ UNCHANGED mounted
       ELSE /\ mounted' = SubSeq(mounted, 1, Len(mounted) - 1)
            /\ todo' = <<"forget">> \o Tail(todo)
    /\ UNCHANGED <<volume, fstab, result, stopped, untidy, changes, failures>>

\* Broken variant of Removed: the entry stays.
Bug_Removed(entries) == entries

\* remove_by_mountpoint: the first entry goes.
Removed(entries) == Tail(entries)

\* Without an entry umount is reported as failed, the volume being off already.
fstab_remove ==
    /\ Do("forget")
    /\ IF fstab = <<>>
       THEN Raise /\ UNCHANGED fstab
       ELSE fstab' = Removed(fstab) /\ todo' = Tail(todo) /\ UNCHANGED result
    /\ UNCHANGED <<volume, mounted, stopped, untidy, changes, failures>>

mount ==
    /\ Do("mount")
    /\ mounted' = Append(mounted, volume)
    /\ todo' = Tail(todo)
    /\ UNCHANGED <<volume, fstab, result, stopped, untidy, changes, failures>>

Listed == \E i \in DOMAIN fstab : fstab[i] = volume

\* A device that is listed is not listed again, and mount is reported as failed.
fstab_add ==
    /\ Do("record")
    /\ IF Listed
       THEN Raise /\ UNCHANGED fstab
       ELSE fstab' = Append(fstab, volume) /\ todo' = Tail(todo) /\ UNCHANGED result
    /\ UNCHANGED <<volume, mounted, stopped, untidy, changes, failures>>

after_change ==
    /\ Do("after_change")
    /\ stopped' = FALSE /\ todo' = <<>> /\ result' = "done"
    /\ UNCHANGED <<volume, mounted, fstab, untidy, changes, failures>>

CutOff ==
    /\ todo # <<>> /\ failures < MaxFailures
    /\ failures' = failures + 1
    /\ todo' = <<>> /\ result' = "none"
    /\ untidy' = (untidy \/ Head(todo) \in {"forget", "record"})
    /\ UNCHANGED <<volume, mounted, fstab, stopped, changes>>

\* All entries are mounted, one on top of the other.
Reboot ==
    /\ todo = <<>> /\ mounted # fstab
    /\ mounted' = fstab
    /\ result' = "none"
    /\ UNCHANGED <<volume, fstab, todo, stopped, untidy, changes, failures>>

Init ==
    /\ volume \in Devices \cup {"ephemeral"}
    /\ mounted = <<>> /\ fstab = <<>> /\ todo = <<>> /\ result = "none"
    /\ stopped = FALSE /\ untidy = FALSE /\ changes = 0 /\ failures = 0

Next == \/ Change \/ configure_volume \/ CommandFails \/ unmount_volume \/ fstab_remove
        \/ mount \/ fstab_add \/ after_change \/ CutOff \/ Reboot

Spec == Init /\ [][Next]_vars
-----------------------------------------------------------------------------
TypeOK ==
    /\ volume \in Devices \cup {"ephemeral", "invalid"}
    /\ mounted \in Seq(Devices) /\ fstab \in Seq(Devices)
    /\ result \in {"none", "nothing", "done", "raised"} /\ stopped \in BOOLEAN

\* A call of configure_volume that returns leaves the device on the mount point that the
\* options ask for, and the machine comes back with it, since mount and umount keep fstab,
\* although volumes.py:57 says that "fstab is neither consulted nor updated".
\* Excepted is what follows a call that has ended between mount or umount and its entry, for
\* good: fstab may then lack the device or list one too many, and the mount point may keep
\* a device below when it should be the machine's own.  The workload is up again, unless the
\* call found the volume in place: what a call that failed has stopped is not started by
\* the next one.
VolumeInPlace ==
    result \in {"done", "nothing"} =>
        /\ Top(mounted) = volume \/ (volume = "ephemeral" /\ untidy)
        /\ Top(fstab) = volume \/ untidy
        /\ stopped => result = "nothing"
=============================================================================
