SPECIFICATION Spec
CONSTANTS
    Parts = {"config", "duration", "env file", "template", "wiring", "stage spec", "oci spec", "oci user", "cdi", "http", "cc http", "report", "versions", "ddns", "json", "string", "cc spec", "hpack", "integer", "huffman", "frames", "entrypoint", "button"}
    MaxPieces = 3
    MaxFields = 3
    MaxRoot = 5
    MaxText = 4
    MaxAppears = 2

    
    
    
PROPERTIES
    ControlsObeyed
CHECK_DEADLOCK FALSE
