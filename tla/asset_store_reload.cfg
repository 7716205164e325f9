\* The same device; one observation of DHCP before and one after the asset was stored and
\* loaded again is enough.
SPECIFICATION Spec
CONSTANTS
    Host = Host
    Phone = Phone
    Port = Port
    Server = Server
    Names = {Host, Phone}
    TellingNames = {Phone}
    VendorTells = FALSE
    Ports = {Port}
    Servers = {Server}
    Inputs <- MCInputs
    MaxList = 2
    MaxBatches = 2
    NoRecord = NoRecord
    NoRow = NoRow
    NoList = NoList
    NotLoading = NotLoading
PROPERTY SameListChangesNothing
