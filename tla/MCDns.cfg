CONSTANTS
    MaxChanges = 2
SPECIFICATION DnsSpec
PROPERTIES DnsChangeSeen
CHECK_DEADLOCK FALSE
