SPECIFICATION Spec
CONSTANTS
    Fields <- FieldList
    Len4Limit = 5
    BufferSize = 40
    Constants <- ConstantTexts
    Cases <- AllCases
    Records <- RecordsOf
    FluentdOutput <- Fluentd
    DatadogOutput <- Datadog
PROPERTIES
    OnlyNamedFieldsChange
    ExtractionIsExact
    TruncatedBetweenCharacters
    AddressesAreRedacted
    EventsCarryTheRecord
