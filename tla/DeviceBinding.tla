----------------------------- MODULE DeviceBinding -----------------------------
(***************************************************************************)
(* Devices bound to meters: two maps that must agree, registration by the  *)
(* user or the provider of a meter, transfers of a device between owners,  *)
(* and transfers of the meter itself.  A call that panics is no step.      *)
(***************************************************************************)
EXTENDS LedgerClock, FiniteSets

CONSTANTS
    Devices,        \* hashes of MAC addresses
    DeviceMeters,   \* numbers of the meters, from 1
    Persons,        \* users and providers
    MeterOperator   \* the provider of the meters

ASSUME DeviceAssumption ==
    /\ DeviceMeters \subseteq Nat \ {0} /\ MeterOperator \in Persons
    /\ 0 \notin Devices  \* a hash is not the absent one

VARIABLES
    boundTo,          \* DeviceHash: the meter of a device, or Unbound
    deviceOf,         \* MeterDevice: the device of a meter, or Unbound
    userOf,           \* the user of each meter
    inService,        \* meters that are active
    pendingTransfers, \* PendingDeviceTransfer: <<device, new owner>>
    lastDevice        \* history: devices each meter had before

deviceVars == <<boundTo, deviceOf, userOf, inService, pendingTransfers, lastDevice>>

Unbound == 0

MayOperate(p, m) == p \in {userOf[m], MeterOperator}

\* A meter with a device both maps know of.
Bound(m) == deviceOf[m] # Unbound /\ boundTo[deviceOf[m]] = m

-----------------------------------------------------------------------------
\* Mutant: the device is looked up under its meter.
RegisterElsewhere(d, m, p) ==
    /\ MayOperate(p, m) /\ m \in inService
    /\ deviceOf[m] \in {Unbound, d}
    /\ boundTo' = [boundTo EXCEPT ![d] = m]
    /\ deviceOf' = [deviceOf EXCEPT ![m] = d]
    /\ lastDevice' = lastDevice
    /\ UNCHANGED <<userOf, inService, pendingTransfers>>

\* register_device: a device that is free or this meter's; the device the meter
\* had before stays bound to it.
RegisterDevice(d, m, p) ==
    /\ MayOperate(p, m) /\ m \in inService
    /\ boundTo[d] \in {Unbound, m}
    /\ boundTo' = [boundTo EXCEPT ![d] = m]
    /\ deviceOf' = [deviceOf EXCEPT ![m] = d]
    /\ lastDevice' = [lastDevice EXCEPT ![m] =
                        IF deviceOf[m] \in {Unbound, d} THEN @ ELSE @ \cup {deviceOf[m]}]
    /\ UNCHANGED <<userOf, inService, pendingTransfers>>

\* initiate_device_transfer
InitiateDeviceTransfer(m, newOwner, p) ==
    /\ MayOperate(p, m)
    /\ Bound(m)
    /\ pendingTransfers' = pendingTransfers \cup {<<deviceOf[m], newOwner>>}
    /\ UNCHANGED <<boundTo, deviceOf, userOf, inService, lastDevice>>

\* complete_device_transfer: for one who may operate the meter already; the
\* pending transfer is neither read nor cleared, and nothing changes.
CompleteDeviceTransfer(m, newOwner) ==
    /\ MayOperate(newOwner, m) /\ m \in inService
    /\ Bound(m)
    /\ UNCHANGED deviceVars

\* transfer_meter_ownership, signed by all three: the device goes with it.
TransferMeterOwnership(m, newUser) ==
    /\ userOf' = [userOf EXCEPT ![m] = newUser]
    /\ UNCHANGED <<boundTo, deviceOf, inService, pendingTransfers, lastDevice>>

\* The activity of a meter follows its balance and its holds (MeterBilling).
ToggleService(m) ==
    /\ inService' = IF m \in inService THEN inService \ {m} ELSE inService \cup {m}
    /\ UNCHANGED <<boundTo, deviceOf, userOf, pendingTransfers, lastDevice>>

-----------------------------------------------------------------------------
DeviceInit ==
    /\ boundTo = [d \in Devices |-> Unbound]
    /\ deviceOf = [m \in DeviceMeters |-> Unbound]
    /\ userOf \in [DeviceMeters -> Persons]
    /\ inService = DeviceMeters
    /\ pendingTransfers = {}
    /\ lastDevice = [m \in DeviceMeters |-> {}]

DeviceStep ==
    \/ \E m \in DeviceMeters, p \in Persons :
         \/ \E d \in Devices : RegisterDevice(d, m, p)
         \/ \E q \in Persons : InitiateDeviceTransfer(m, q, p)
         \/ CompleteDeviceTransfer(m, p)
         \/ TransferMeterOwnership(m, p)
    \/ \E m \in DeviceMeters : ToggleService(m)

DeviceNext == DeviceStep /\ UNCHANGED now

DeviceSpec == now = 0 /\ DeviceInit /\ [][DeviceNext]_<<now, deviceVars>>

-----------------------------------------------------------------------------
DeviceTypeOK ==
    /\ boundTo \in [Devices -> DeviceMeters \cup {Unbound}]
    /\ deviceOf \in [DeviceMeters -> Devices \cup {Unbound}]
    /\ userOf \in [DeviceMeters -> Persons]
    /\ inService \subseteq DeviceMeters
    /\ pendingTransfers \subseteq Devices \X Persons
    /\ lastDevice \in [DeviceMeters -> SUBSET Devices]

\* The two maps agree on every meter's device, so that no device serves two
\* meters, and a device bound to a meter is its own or one it had before.
BindingsAgree ==
    /\ \A m \in DeviceMeters : deviceOf[m] # Unbound => boundTo[deviceOf[m]] = m
    /\ \A d \in Devices : boundTo[d] # Unbound =>
         d = deviceOf[boundTo[d]] \/ d \in lastDevice[boundTo[d]]

\* Every device serves one meter, every meter knows its device.
DeviceInv == DeviceTypeOK /\ BindingsAgree

=============================================================================
