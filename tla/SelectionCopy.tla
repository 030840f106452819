--------------------------- MODULE SelectionCopy ---------------------------
(***************************************************************************)
(* The operations of the host that write the clipboard themselves beside   *)
(* the history service: the temporary copy of a selection capture          *)
(* (selection_capture/clipboard.rs, run_transaction), which has the target *)
(* copy its selection, reads it and puts the earlier contents back, and    *)
(* the paste of a record (commands.rs, clipboard_history_write_copy).      *)
(*                                                                         *)
(* The clipboard lock makes a read or a restore one step; the grace and    *)
(* the deadlines become steps that may be taken at any time.  A write that *)
(* renders a delayed format raises the sequence number once more.  A       *)
(* snapshot that cannot be taken leaves nothing to restore and is left     *)
(* out; formats and the Windows history too.                               *)
(***************************************************************************)
EXTENDS ClipboardHistory

VARIABLES
    selection,  \* the Driver: step, baseline, what it observed, keys touched since
    pending,    \* injected Ctrl+C the target has not handled yet
    delivered,  \* sequence numbers whose text a capture returned
    paste,      \* a paste between its suppression and its write
    userCopy    \* sequence number of the user's last copy

copyVars == <<selection, pending, delivered, paste, userCopy>>
clipboardVars == <<hostVars, copyVars>>

NoSelection == [pc |-> "idle", baseline |-> 0, observed |-> 0, touched |-> FALSE]

CopyTypeOK ==
    /\ ClipboardTypeOK
    /\ selection \in [pc : {"idle", "copy", "read", "restore"}, baseline : 0..MaxSeq,
                      observed : 0..MaxSeq, touched : BOOLEAN]
    /\ pending \in 0..1
    /\ delivered \in SUBSET (1..MaxSeq)
    /\ paste \in {"idle", "begun"}
    /\ userCopy \in 0..MaxSeq

Newest(sequence) == SubSeq(sequence, Len(sequence) - MaxExcluded + 1, Len(sequence))

\* Fault: at the limit the new number is dropped.
ExcludeOldest(known, sequence) ==
    IF Len(known) = MaxExcluded THEN known ELSE Append(known, sequence)

\* exclude_sequence: beyond the limit the oldest goes.
Exclude(known, sequence) ==
    IF \E i \in DOMAIN known : known[i] = sequence THEN known
    ELSE LET added == Append(known, sequence)
         IN IF Len(added) > MaxExcluded THEN Newest(added) ELSE added

----------------------------------------------------------------------------
\* The transaction.

SelectionBegins ==
    /\ selection.pc = "idle" /\ gate = None
    /\ gate' = "selection"
    /\ selection' = [NoSelection EXCEPT !.pc = "copy", !.baseline = clip.seq]
    /\ UNCHANGED <<granted, authorized, handle, suppressed, excluded, history, manager,
                   observer, clip, latest, pending, delivered, paste, userCopy>>

SelectionEnds == selection' = NoSelection /\ gate' = None

\* Cancelled, out of time, or the contents changed since the snapshot: nothing was sent.
SelectionRefused ==
    /\ selection.pc = "copy"
    /\ SelectionEnds
    /\ UNCHANGED <<granted, authorized, handle, suppressed, excluded, history, manager,
                   observer, clip, latest, pending, delivered, paste, userCopy>>

InjectCopy ==
    /\ selection.pc = "copy" /\ clip.seq = selection.baseline
    /\ pending = 0
    /\ pending' = 1
    /\ selection' = [selection EXCEPT !.pc = "read"]
    /\ UNCHANGED <<hostVars, delivered, paste, userCopy>>

\* Fault: the contents are taken for the target's copy whatever the user did meanwhile.
FreshUntouched ==
    clip.seq # selection.baseline /\ clip.by = "temp"

\* fresh_copy: new, the target's, and no key or button was touched.
Fresh ==
    /\ clip.seq # selection.baseline
    /\ clip.by = "temp"
    /\ ~selection.touched

\* read_text, under the clipboard lock; rendering may raise the number.
ReadCopy ==
    /\ selection.pc = "read" /\ Fresh
    /\ \E rendered \in {clip.seq, clip.seq + 1} :
          /\ clip' = [clip EXCEPT !.seq = rendered]
          /\ excluded' = Exclude(Exclude(excluded, clip.seq), rendered)
          /\ selection' = [selection EXCEPT !.pc = "restore", !.observed = rendered]
          /\ delivered' \in {delivered, delivered \cup {clip.seq, rendered}}
    /\ UNCHANGED <<granted, authorized, handle, suppressed, gate, history, manager,
                   observer, latest, pending, paste, userCopy>>

\* Contents that are not the copy, a deadline, a cancellation.
ReadGivesUp ==
    /\ selection.pc = "read"
    /\ selection' = [selection EXCEPT !.pc = "restore"]
    /\ UNCHANGED <<hostVars, pending, delivered, paste, userCopy>>

StillOwned == clip.seq = selection.observed /\ ~selection.touched

\* A copy that came after the read gave up is restored as well.
RestoreContents ==
    /\ selection.pc = "restore"
    /\ IF selection.observed = 0 THEN Fresh ELSE StillOwned
    /\ clip' = Written("restored")
    /\ excluded' = Exclude(IF selection.observed = 0 THEN Exclude(excluded, clip.seq)
                                                     ELSE excluded, clip.seq + 1)
    /\ SelectionEnds
    /\ UNCHANGED <<granted, authorized, handle, suppressed, history, manager, observer,
                   latest, pending, delivered, paste, userCopy>>

\* The copy never came within the grace, or the contents are no longer the copy.
RestoreNothing ==
    /\ selection.pc = "restore"
    /\ ~(IF selection.observed = 0 THEN Fresh ELSE StillOwned)
    /\ SelectionEnds
    /\ UNCHANGED <<granted, authorized, handle, suppressed, excluded, history, manager,
                   observer, clip, latest, pending, delivered, paste, userCopy>>

SelectionStep ==
    \/ SelectionBegins \/ SelectionRefused \/ InjectCopy \/ ReadCopy \/ ReadGivesUp
    \/ RestoreContents \/ RestoreNothing

----------------------------------------------------------------------------
\* The others: the target, in its own time; a user, who touches keys to copy; a paste.

TargetCopies ==
    /\ pending > 0 /\ MayCopy
    /\ clip' = Written("temp")
    /\ pending' = 0
    /\ UNCHANGED <<granted, serviceVars, manager, observer, latest, selection, delivered, paste, userCopy>>

UserCopies ==
    /\ MayCopy
    /\ clip' = Written("user")
    /\ selection' = IF selection.pc = "idle" THEN selection
                    ELSE [selection EXCEPT !.touched = TRUE]
    /\ userCopy' = clip.seq + 1
    /\ UNCHANGED <<granted, serviceVars, manager, observer, latest, pending, delivered, paste>>

\* A key or a button that copies nothing.
UserTouches ==
    /\ selection.pc # "idle" /\ ~selection.touched
    /\ selection' = [selection EXCEPT !.touched = TRUE]
    /\ UNCHANGED <<hostVars, pending, delivered, paste, userCopy>>

BeginPaste ==
    /\ paste = "idle" /\ authorized # {}
    /\ suppressed' = suppressed + 1
    /\ paste' = "begun"
    /\ UNCHANGED <<granted, authorized, handle, excluded, gate, history, manager, observer,
                   clip, latest, selection, pending, delivered, userCopy>>

WritePaste ==
    /\ paste = "begun" /\ MayCopy
    /\ clip' = Written("other")
    /\ paste' = "idle"
    /\ UNCHANGED <<granted, serviceVars, manager, observer, latest, selection, pending, delivered, userCopy>>

CancelPaste ==
    /\ paste = "begun"
    /\ suppressed' = IF suppressed > 0 THEN suppressed - 1 ELSE 0
    /\ paste' = "idle"
    /\ UNCHANGED <<granted, authorized, handle, excluded, gate, history, manager, observer,
                   clip, latest, selection, pending, delivered, userCopy>>

\* A record copied from the panel, under the gate and recorded like any copy.
PanelCopies ==
    /\ gate = None /\ authorized # {} /\ MayCopy
    /\ clip' = Written("other")
    /\ UNCHANGED <<granted, serviceVars, manager, observer, latest, copyVars>>

WriterStep ==
    \/ TargetCopies \/ UserCopies \/ UserTouches \/ BeginPaste \/ WritePaste \/ CancelPaste \/ PanelCopies

CopyInit == selection = NoSelection /\ pending = 0 /\ delivered = {} /\ paste = "idle"
            /\ userCopy = 0

CopyNext == SelectionStep \/ WriterStep \/ (HistoryNext /\ UNCHANGED copyVars)

CopySpec == HistoryInit /\ CopyInit /\ [][CopyNext]_clipboardVars

----------------------------------------------------------------------------
\* Putting the earlier contents back overwrites the target's copy and nothing else, and
\* never happens when the user has copied since they were saved (fresh_copy, still_owned).
UserCopyKept ==
    [][clip'.by = "restored" /\ clip' # clip
          => clip.by = "temp" /\ userCopy <= selection.baseline]_clipboardVars

\* No plugin's history ever holds a text that a capture has returned, nor the contents
\* put back after it: the transaction and the observer exclude each other, and what was
\* excluded stays so while it is current (with_temporary_copy, exclude_sequence, capture_current).
TemporaryNotRecorded ==
    \A p \in Plugins : \A c \in history[p] : c.by # "restored" /\ c.seq \notin delivered
=============================================================================
