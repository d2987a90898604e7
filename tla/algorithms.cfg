SPECIFICATION Spec
INVARIANTS PatternsMatch ChecksumsVerify FieldsFound SettingsAsWritten
