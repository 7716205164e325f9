\* One device that announces a service and dials the same port, whose second host name gives
\* its operating system away; up to two snapshots on their way, a list of up to two items.
SPECIFICATION Spec
CONSTANTS
    Host = Host
    Phone = Phone
    Port = Port
    Server = Server
    Names = {Host, Phone}
    TellingNames = {Phone}
    VendorTells = FALSE
    Ports = {Port}
    Servers = {Server}
    Inputs <- MCInputs
    MaxList = 2
    MaxBatches = 2
    NoRecord = NoRecord
    NoRow = NoRow
    NoList = NoList
    NotLoading = NotLoading
INVARIANT TypeOK
INVARIANT RowAnswersForMemory
INVARIANT MemoryAnswersForRow
INVARIANT NothingListedTwice
