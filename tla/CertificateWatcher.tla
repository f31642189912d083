-------------------------- MODULE CertificateWatcher -------------------------
(***************************************************************************)
(* The CertificateWatcher of the allocation API                            *)
(* (pkg/operator/controllers/cert_watcher.go).                             *)
(*                                                                         *)
(* A certificate and its key are two files that are replaced one after the *)
(* other, by somebody the watcher knows nothing about.  The watcher polls  *)
(* their modification times and reads both again when one has changed.  A  *)
(* certificate and a key of the same version are a pair.                   *)
(***************************************************************************)
EXTENDS Integers

CONSTANTS
    Versions,       \* bound: versions of the two files
    MaxReadErrors   \* bound: files that cannot be read

ASSUME WatcherAssumption ==
    /\ Versions \in Nat \ {0}
    /\ MaxReadErrors \in Nat

VARIABLES
    certFile, keyFile,                  \* their versions
    lastCertModTime, lastKeyModTime,    \* the versions that Start has seen
    changed,                            \* whether this poll has found a change
    certPEM,                            \* what LoadCertificate has read
    currentCert,                        \* the pair that is served
    pc,                                 \* what the watcher does next
    readErrors                          \* how many there have been

files   == <<certFile, keyFile>>
seen    == <<lastCertModTime, lastKeyModTime, changed>>
watcher == <<seen, certPEM, currentCert, pc>>
vars    == <<files, watcher, readErrors>>

(* main has loaded the first pair, and the manager starts the watcher.     *)
Init ==
    /\ certFile = 1 /\ keyFile = 1
    /\ lastCertModTime = 0 /\ lastKeyModTime = 0
    /\ changed = FALSE
    /\ certPEM = 1
    /\ currentCert = [cert |-> 1, key |-> 1]
    /\ pc = "first cert"
    /\ readErrors = 0

-----------------------------------------------------------------------------
(* Start                                                                   *)

FirstStatCert ==
    /\ pc = "first cert"
    /\ lastCertModTime' = certFile
    /\ pc' = "first key"
    /\ UNCHANGED <<files, lastKeyModTime, changed, certPEM, currentCert, readErrors>>

FirstStatKey ==
    /\ pc = "first key"
    /\ lastKeyModTime' = keyFile
    /\ pc' = "stat cert"
    /\ UNCHANGED <<files, lastCertModTime, changed, certPEM, currentCert, readErrors>>

StatCert ==
    /\ pc = "stat cert"
    /\ changed' = (certFile # lastCertModTime)
    /\ lastCertModTime' = certFile
    /\ pc' = "stat key"
    /\ UNCHANGED <<files, lastKeyModTime, certPEM, currentCert, readErrors>>

(* Variant of StatKey: only a new certificate counts.                      *)
StatKeyIgnored ==
    /\ pc = "stat key"
    /\ lastKeyModTime' = keyFile
    /\ pc' = IF changed THEN "read cert" ELSE "stat cert"
    /\ UNCHANGED <<files, lastCertModTime, changed, certPEM, currentCert, readErrors>>

(* Variant of StatKey: the answer for the key overwrites the certificate's.*)
StatKeyOverwrites ==
    /\ pc = "stat key"
    /\ changed' = (keyFile # lastKeyModTime)
    /\ lastKeyModTime' = keyFile
    /\ pc' = IF changed' THEN "read cert" ELSE "stat cert"
    /\ UNCHANGED <<files, lastCertModTime, certPEM, currentCert, readErrors>>

StatKey ==
    /\ pc = "stat key"
    /\ changed' = (changed \/ keyFile # lastKeyModTime)
    /\ lastKeyModTime' = keyFile
    /\ pc' = IF changed' THEN "read cert" ELSE "stat cert"
    /\ UNCHANGED <<files, lastCertModTime, certPEM, currentCert, readErrors>>

(* LoadCertificate                                                         *)
ReadCert ==
    /\ pc = "read cert"
    /\ certPEM' = certFile
    /\ pc' = "read key"
    /\ UNCHANGED <<files, seen, currentCert, readErrors>>

(* X509KeyPair fails for files of different versions; the old pair stays.  *)
ReadKey ==
    /\ pc = "read key"
    /\ currentCert' = IF certPEM = keyFile
                      THEN [cert |-> certPEM, key |-> keyFile] ELSE currentCert
    /\ pc' = "stat cert"
    /\ UNCHANGED <<files, seen, certPEM, readErrors>>

(* The error is logged, and the modification times count as seen.          *)
ReadFails ==
    /\ pc \in {"read cert", "read key"}
    /\ readErrors < MaxReadErrors
    /\ readErrors' = readErrors + 1
    /\ pc' = "stat cert"
    /\ UNCHANGED <<files, seen, certPEM, currentCert>>

-----------------------------------------------------------------------------
(* Who rotates the certificate writes one file and then the other; the     *)
(* kubelet swaps a symbolic link, which changes both at once.  Either may  *)
(* happen before the watcher has started.                                  *)
WriteCert ==
    /\ certFile < Versions
    /\ certFile <= keyFile
    /\ certFile' = certFile + 1
    /\ UNCHANGED <<keyFile, watcher, readErrors>>

WriteKey ==
    /\ keyFile < Versions
    /\ keyFile <= certFile
    /\ keyFile' = keyFile + 1
    /\ UNCHANGED <<certFile, watcher, readErrors>>

SwapBoth ==
    /\ certFile = keyFile
    /\ certFile < Versions
    /\ certFile' = certFile + 1
    /\ keyFile' = keyFile + 1
    /\ UNCHANGED <<watcher, readErrors>>

-----------------------------------------------------------------------------
Poll ==
    \/ FirstStatCert \/ FirstStatKey
    \/ StatCert \/ StatKey
    \/ ReadCert \/ ReadKey \/ ReadFails

Next == Poll \/ WriteCert \/ WriteKey \/ SwapBoth

Spec == Init /\ [][Next]_vars

(* The ticker goes on.                                                     *)
FairSpec == Spec /\ WF_vars(Poll)

-----------------------------------------------------------------------------
(* Properties                                                              *)

(* The watcher has looked at the files once.                               *)
Started == pc \notin {"first cert", "first key"}

(* When the files are left alone as a pair, that pair is served in the     *)
(* end, also if a poll has fallen between the two files: provided that     *)
(* they do not change between the first load and the start of the watcher, *)
(* and that they can be read (cert_watcher.go, 108-149).                   *)
NewestIsServed ==
    [](readErrors = 0 /\ (~ Started => certFile = 1 /\ keyFile = 1)) =>
        <>[](certFile = keyFile => currentCert.cert = certFile)

(* Whatever was missed before the watcher had started, or because a file   *)
(* could not be read, the next rotation mends it.                          *)
RotationMends ==
    [](/\ Started /\ readErrors = MaxReadErrors
       /\ certFile < Versions /\ keyFile < Versions
       /\ <>(certFile = Versions /\ keyFile = Versions)
       => <>(currentCert = [cert |-> Versions, key |-> Versions]))

=============================================================================
